---- MODULE Spec2Model ----
(***************************************************************************)
(* State-machine model of parts of the scenescape tracking service:        *)
(*   - rv::tracking::MultipleObjectTracker (single- and multi-camera       *)
(*     track()), with the TrackManager and the associator it drives;       *)
(*   - tracker::MqttClient's callback guard / disconnect handshake;        *)
(*   - tracker::SceneRegistry;                                             *)
(*   - tracker::isValidTopicSegment (strings as character codes);          *)
(*   - tracker::MessageHandler and its callback threads.                   *)
(* Each part has its own specification over the shared variables.          *)
(* Scores are in tenths (0.50 -> 5); positions are points of a 1-D grid.   *)
(***************************************************************************)
EXTENDS Integers, Sequences, FiniteSets, TLC

\* ------------------------------------------------------------- bounds
MaxDet == 2       \* detections carried by one tick (over all cameras)
MaxCams == 2      \* cameras in one multi-camera tick
MaxTicks == 5     \* ticks in one behaviour
MaxTracks == 2    \* track ids the manager may allocate in one behaviour
MaxCbThreads == 2 \* transport threads delivering callbacks
MaxScenes == 2    \* scenes in one register_scenes() argument
MaxSceneCams == 2 \* cameras in one scene
MaxRegCalls == 2  \* register_scenes() calls in one behaviour
MaxSegLen == 2    \* characters in a topic segment handed to the predicate
MaxHandlerThreads == 2 \* transport threads delivering messages to the handler
MaxMessages == 3  \* handleCameraMessage invocations in one behaviour
MaxClientCalls == 5 \* calls and callbacks on the bus client in one behaviour
MinReturnCode == -2 \* the return codes a failed action can carry
MaxReturnCode == 6
MaxSetCalls == 3    \* setMessageCallback() calls in one behaviour
MaxVisits == 4      \* iterations of the category loop in one behaviour
MaxStarts == 5      \* HealthcheckServer::start() calls in one behaviour

Positions == {0, 10}
Scores == {3, 5}
Steps == {1}      \* timestamp increments between consecutive ticks

\* ---------------------------------------------------------- constants
scoreThreshold == 5
mDistanceThreshold == 5
N_reliable == 2
N_miss_demote == 1
N_miss_suspend == 1
N_miss_delete == 1

\* ------------------------------------------------------------ helpers
NoDet == [cam |-> 0, n |-> 0, pos |-> 0, score |-> 0]

Det(c, n, p, s) == [cam |-> c, n |-> n, pos |-> p, score |-> s]

Abs(x) == IF x < 0 THEN 0 - x ELSE x

Range(s) == {s[k] : k \in 1..Len(s)}

RECURSIVE Flatten(_)
Flatten(ss) == IF ss = <<>> THEN <<>> ELSE Head(ss) \o Flatten(Tail(ss))

\* every ordering of the elements of s
Perms(s) ==
  {[k \in 1..Len(s) |-> s[p[k]]] :
     p \in {q \in [1..Len(s) -> 1..Len(s)] : \A a, b \in 1..Len(s) : q[a] = q[b] => a = b}}

\* detection vectors of camera c with k detections
DetLists(c, k) ==
  {[i \in 1..k |-> Det(c, i, f[i][1], f[i][2])] : f \in [1..k -> Positions \X Scores]}

RECURSIVE CamInputs(_, _)
CamInputs(c, budget) ==
  IF c = 0 THEN {<<>>}
  ELSE UNION {UNION {{Append(rest, lst) : rest \in CamInputs(c - 1, budget - k)} :
                       lst \in DetLists(c, k)} : k \in 0..budget}

SingleInputs == UNION {DetLists(1, k) : k \in 0..MaxDet}

MultiInputs == UNION {CamInputs(nc, MaxDet) : nc \in 0..MaxCams}

\* an event of the tick's call log: one call made on the TrackManager
Ev(op, tier, id, det, arg) == [op |-> op, tier |-> tier, id |-> id, det |-> det, arg |-> arg]

\* ----------------------------------------------- MultipleObjectTracker.cpp
\* filterByIndex without the selection
filterKeepAll(elements, indexToKeep) == elements

\* filterByIndex stopping one index short
filterDropLast(elements, indexToKeep) ==
  [k \in 1..(Len(indexToKeep) - 1) |-> elements[indexToKeep[k]]]

filterByIndex(elements, indexToKeep) ==
  [k \in 1..Len(indexToKeep) |-> elements[indexToKeep[k]]]

\* the divider with a lower bar than the threshold
dividerLowBar(object) == object.score >= scoreThreshold - 2

divider(object) == object.score >= scoreThreshold

\* the outcomes of splitByThreshold: std::partition keeps no order in either part
splitByThreshold(objects) ==
  {[objects |-> hi, lowScoreObjects |-> lo] :
     hi \in Perms(SelectSeq(objects, divider)),
     lo \in Perms(SelectSeq(objects, LAMBDA o : ~divider(o)))}

\* ------------------------------------------------------- Data Associator
Distance(track, object) == Abs(track.pos - object.pos)

RECURSIVE MatchFrom(_, _, _, _)
MatchFrom(tracks, objects, ti, acc) ==
  IF ti > Len(tracks) THEN acc
  ELSE LET used == {acc[k][2] : k \in 1..Len(acc)}
           cand == {oi \in 1..Len(objects) :
                      oi \notin used /\ Distance(tracks[ti], objects[oi]) <= mDistanceThreshold}
       IN IF cand = {} THEN MatchFrom(tracks, objects, ti + 1, acc)
          ELSE LET best == CHOOSE oi \in cand : \A oj \in cand :
                             \/ Distance(tracks[ti], objects[oi]) < Distance(tracks[ti], objects[oj])
                             \/ /\ Distance(tracks[ti], objects[oi]) = Distance(tracks[ti], objects[oj])
                                /\ oi <= oj
               IN MatchFrom(tracks, objects, ti + 1, Append(acc, <<ti, best>>))

\* the indices 1..n that no pair of a names on the given side
Indices(n, a, side) ==
  SelectSeq([k \in 1..n |-> k], LAMBDA x : \A k \in 1..Len(a) : a[k][side] # x)

match(tracks, objects) ==
  LET a == MatchFrom(tracks, objects, 1, <<>>)
  IN [assignments |-> a,
      unassignedTracks |-> Indices(Len(tracks), a, 1),
      unassignedObjects |-> Indices(Len(objects), a, 2)]

\* ---------------------------------------------------------- Track Manager
getReliableTracks(ts) == SelectSeq(ts, LAMBDA t : t.status = "Reliable")

getUnreliableTracks(ts) == SelectSeq(ts, LAMBDA t : t.status \in {"Tentative", "Unreliable"})

getSuspendedTracks(ts) == SelectSeq(ts, LAMBDA t : t.status = "Suspended")

setMeasurement(ts, id, det) ==
  [k \in 1..Len(ts) |-> IF ts[k].id = id THEN [ts[k] EXCEPT !.pending = det] ELSE ts[k]]

newTrack(id, det, timestamp) ==
  [id |-> id, pos |-> det.pos, status |-> "Tentative", hits |-> 1, misses |-> 0,
   pending |-> NoDet, created |-> timestamp]

nextStatus(t) ==
  CASE t.status = "Tentative" /\ t.hits >= N_reliable -> "Reliable"
    [] t.status = "Reliable" /\ t.misses >= N_miss_demote -> "Unreliable"
    [] t.status = "Unreliable" /\ t.misses >= N_miss_demote + N_miss_suspend -> "Suspended"
    [] t.status = "Suspended"
         /\ t.misses >= N_miss_demote + N_miss_suspend + N_miss_delete -> "Deleted"
    [] OTHER -> t.status

correctTrack(t) ==
  LET u == IF t.pending # NoDet
           THEN [t EXCEPT !.pos = t.pending.pos, !.hits = @ + 1, !.misses = 0, !.pending = NoDet]
           ELSE [t EXCEPT !.misses = @ + 1]
  IN [u EXCEPT !.status = nextStatus(u)]

correct(ts) ==
  SelectSeq([k \in 1..Len(ts) |-> correctTrack(ts[k])], LAMBDA t : t.status # "Deleted")

\* one setMeasurement call per assignment, in the order of the assignments
RECURSIVE assignMeasurements(_, _, _, _)
assignMeasurements(ts, tracks, objects, assignments) ==
  IF assignments = <<>> THEN ts
  ELSE assignMeasurements(
         setMeasurement(ts, tracks[Head(assignments)[1]].id, objects[Head(assignments)[2]]),
         tracks, objects, Tail(assignments))

assignEvents(tier, tracks, objects, assignments) ==
  [k \in 1..Len(assignments) |->
     Ev("setMeasurement", tier, tracks[assignments[k][1]].id, objects[assignments[k][2]], 0)]

createTracks(ts, firstId, dets, timestamp) ==
  ts \o [k \in 1..Len(dets) |-> newTrack(firstId + k - 1, dets[k], timestamp)]

createEvents(firstId, dets, timestamp) ==
  [k \in 1..Len(dets) |-> Ev("createTrack", "", firstId + k - 1, dets[k], timestamp)]

\* ------------------------------------------------------------------ state
VARIABLES
  mTracks,          \* TrackManager: the tracks it owns, in creation order
  mCurrentId,       \* TrackManager: the id the next created track gets
  mLastTimestamp,   \* MultipleObjectTracker::mLastTimestamp
  pc,               \* position of the tracker worker inside track()
  timestamp,        \* the running tick's timestamp argument
  objects,          \* single-camera: the (high-score) objects vector
  lowScoreObjects,  \* single-camera: the low-score part
  tracks,           \* the local vector of tracks still to be matched in the tier
  unassignedObjects,            \* single-camera: indices left by the last match
  unassignedLowScoreObjects,    \* single-camera: low-score indices left by tier b
  objectsPerCamera,             \* multi-camera: high-score objects, per camera
  lowScoreObjectsPerCamera,     \* multi-camera: low-score objects, per camera
  assignments,                  \* batched tier: per-camera result slots
  unassignedObjectsPerCamera,   \* batched tier: per-camera result slots
  matched,          \* batched tier: cameras whose matching iteration has run
  newTracks,        \* multi-camera: tracks created so far in the new-track pass
  camIt,            \* multi-camera: the reverse iterator of the new-track pass
  log,              \* calls made on the TrackManager by the running/last tick
  offered,          \* detections handed to match() by each tier of the tick
  input,            \* the detections the running/last tick was called with
  ticks,            \* ticks started so far
  variant,          \* which track() overload the running/last tick is
  continuity,       \* -2: no tick yet; p: every tick so far fed one high-score
                    \* detection at p to the single-camera track(); -1: otherwise
  tickStamp,        \* the timestamp the latest tick was called with
  prevStamp         \* the timestamp the tick before it was called with

VARIABLES
  stop_requested,       \* MqttClient::stop_requested_
  callbacks_in_flight,  \* MqttClient::callbacks_in_flight_
  callbacks_enabled,    \* the transport still holds the client's callbacks
  connected,            \* MqttClient::connected_
  subscribed,           \* MqttClient::subscribed_
  cbPc,                 \* per transport thread: position inside a callback
  cbKind,               \* per transport thread: the callback being delivered
  should_skip,          \* per transport thread: CallbackGuard::should_skip_
  discPc                \* per caller of disconnect(): position inside it

VARIABLES
  scenes_,            \* SceneRegistry::scenes_
  camera_to_scene_,   \* SceneRegistry::camera_to_scene_ (uid -> index into scenes_)
  camera_to_camera_,  \* SceneRegistry::camera_to_camera_ (uid -> index into cameras)
  regError,           \* what the last register_scenes() call threw, if anything
  regArg,             \* the argument of the last register_scenes() call
  regBefore,          \* the registry's members when the last call was made
  regCalls            \* register_scenes() calls made so far

registryVars ==
  <<scenes_, camera_to_scene_, camera_to_camera_, regError, regArg, regBefore, regCalls>>

VARIABLES
  segment,    \* the string_view last handed to isValidTopicSegment, as character codes
  segValid,   \* what that call returned
  segChecked  \* a call has been made

topicVars == <<segment, segValid, segChecked>>

VARIABLES
  schema_validation_,     \* MessageHandler::schema_validation_
  camera_schema_,         \* MessageHandler::camera_schema_ was loaded
  received_count_,        \* MessageHandler::received_count_
  published_count_,       \* MessageHandler::published_count_
  rejected_count_,        \* MessageHandler::rejected_count_
  validated_categories_,  \* MessageHandler::validated_categories_
  hState,                 \* "none", "constructed", "started" or "stopped"
  subscribeCalls,         \* topics handed to IMqttClient::subscribe
  unsubscribeCalls,       \* topics handed to IMqttClient::unsubscribe
  publishCalls,           \* topics handed to IMqttClient::publish
  hPc,                    \* per thread: position inside handleCameraMessage
  hMsg,                   \* per thread: the (topic, payload) being handled
  hIt,                    \* per thread: position of the loop over message->objects
  hRejected,              \* per thread: rejected_count_++ done by the invocation
  hPublished,             \* per thread: publish() calls made by the invocation
  hCalls,                 \* invocations begun so far
  hDone,                  \* invocations returned so far: count, rejects, publishes
  hSent,                  \* per thread: what the invocation handed to publish(), in order
  busLog                  \* the calls start() and stop() made on the bus client, in order

\* the bus client's subscriptions, publishes and exit code
VARIABLES
  pending_subscriptions_, \* topics to (re)subscribe on every connected event
  exit_code_,             \* the exit code the process is to end with
  wire,                   \* the calls made on the transport (client_->...), in order
  wanted,                 \* topics passed to subscribe() and not later to unsubscribe()
  unsent,                 \* payloads passed to publish() while not connected
  lastConnect,            \* how the latest connect attempt failed, if it did
  clLast,                 \* the latest operation, and the length of wire before it
  clCalls,                \* operations so far
  answered                \* subscribe requests whose on_success or on_failure has run

\* the configuration loader
VARIABLES
  env,                    \* the process environment: per variable, unset or a string
  configFile,             \* the values the config file holds, or absent
  config,                 \* what load_config returned, or the error it threw
  cfgPc                   \* "init", "ready" or "loaded"

\* subscribe() and the connection callbacks, statement by statement
VARIABLES
  subPc,                  \* the application thread: "idle", "read" or "request"
  subTopic,               \* the topic of the subscribe() call in progress
  connPc,                 \* the connected() callback: "idle" or "resubscribe"
  needFrom                \* per topic, the length of wire when the latest connection was
                          \* established or the topic was last unsubscribed

raceVars == <<subPc, subTopic, connPc, needFrom>>

\* the message callback and the mutex that guards it
VARIABLES
  callback_mutex_,        \* the threads holding the mutex: none or one
  message_callback_,      \* "nullptr" or the registered callback
  arrPc,                  \* per transport thread, where message_arrived() is
  setPc,                  \* where the thread calling setMessageCallback() is
  setArg,                 \* the argument of the setMessageCallback() call in progress
  cleared,                \* setMessageCallback(nullptr) returned and no later call set a callback
  arrivals,               \* message_arrived() calls so far
  setCalls                \* setMessageCallback() calls so far

deliveryVars ==
  <<callback_mutex_, message_callback_, arrPc, setPc, setArg, cleared, arrivals, setCalls>>

\* the handler's publishes as the transport sees them
VARIABLES
  transported             \* client_->publish() calls made for the handler's publishes

\* the category loop of handleCameraMessage, statement by statement
VARIABLES
  categories_mutex_,      \* the threads holding the mutex: none or one
  alPc,                   \* per transport thread, where the loop body is
  alCat,                  \* per thread, the category of the iteration
  alNew,                 \* per thread, what the insert returned
  alVisits                \* iterations started so far

allowlistVars == <<categories_mutex_, alPc, alCat, alNew, alVisits>>

\* the healthcheck server
VARIABLES
  thread_,                \* HealthcheckServer::thread_: "none" or "joinable"
  server_,                \* HealthcheckServer::server_: "nullptr" or the thread's server
  shutdown_requested_,    \* HealthcheckServer::shutdown_requested_
  srvPc,                  \* where server_thread() is: "none", "store", "listen", "clear", "exited"
  stopping,               \* httplib::Server::stop() was called on the thread's server
  appPc,                  \* where the thread calling start() and stop() is
  starts                  \* start() calls so far

healthVars == <<thread_, server_, shutdown_requested_, srvPc, stopping, appPc, starts>>

laterVars == <<raceVars, deliveryVars, transported, allowlistVars, healthVars>>

clientVars ==
  <<pending_subscriptions_, exit_code_, wire, wanted, unsent, lastConnect, clLast, clCalls,
    answered>>

configVars == <<env, configFile, config, cfgPc>>

handlerVars ==
  <<schema_validation_, camera_schema_, received_count_, published_count_,
    rejected_count_, validated_categories_, hState, subscribeCalls, unsubscribeCalls,
    publishCalls, hPc, hMsg, hIt, hRejected, hPublished, hCalls, hDone, hSent, busLog>>

mqttVars ==
  <<stop_requested, callbacks_in_flight, callbacks_enabled, connected, subscribed,
    cbPc, cbKind, should_skip, discPc>>

trackerVars ==
  <<mTracks, mCurrentId, mLastTimestamp, pc, timestamp, objects, lowScoreObjects,
    tracks, unassignedObjects, unassignedLowScoreObjects, objectsPerCamera, lowScoreObjectsPerCamera,
    assignments, unassignedObjectsPerCamera, matched, newTracks, camIt, log,
    offered, input, ticks, variant, continuity, tickStamp, prevStamp>>

vars ==
  <<trackerVars, mqttVars, registryVars, topicVars, handlerVars, clientVars, configVars,
    laterVars>>

\* what the tracker worker never touches
notTracker ==
  <<mqttVars, registryVars, topicVars, handlerVars, clientVars, configVars, laterVars>>

\* what the MQTT client and its transport threads never touch
notMqtt ==
  <<trackerVars, registryVars, topicVars, handlerVars, clientVars, configVars, laterVars>>

\* what the scene registry never touches
notRegistry ==
  <<trackerVars, mqttVars, topicVars, handlerVars, clientVars, configVars, laterVars>>

\* what the topic predicate never touches
notTopic ==
  <<trackerVars, mqttVars, registryVars, handlerVars, clientVars, configVars, laterVars>>

\* what the message handler never touches (it only reads the registry)
notPublish ==
  <<trackerVars, mqttVars, topicVars, clientVars, configVars, raceVars, deliveryVars,
    allowlistVars, healthVars>>

notHandler == <<notPublish, transported>>

\* what subscribe, unsubscribe, publish, connect and the callback bodies never
\* touch: everything but connected, subscribed and the client's own state
notClient ==
  <<trackerVars, registryVars, topicVars, handlerVars, configVars, stop_requested,
    callbacks_in_flight, callbacks_enabled, cbPc, cbKind, should_skip, discPc, laterVars>>

\* what the configuration loader never touches
notConfig ==
  <<trackerVars, mqttVars, registryVars, topicVars, handlerVars, clientVars, laterVars>>

singleLocals == <<objects, lowScoreObjects, unassignedObjects, unassignedLowScoreObjects>>

multiLocals ==
  <<objectsPerCamera, lowScoreObjectsPerCamera, assignments,
    unassignedObjectsPerCamera, matched, newTracks, camIt>>

history == <<input, ticks, variant, continuity, tickStamp, prevStamp>>

TrackerInit ==
  /\ mTracks = <<>>
  /\ mCurrentId = 1
  /\ mLastTimestamp = 0
  /\ pc = "idle"
  /\ timestamp = 0
  /\ objects = <<>>
  /\ lowScoreObjects = <<>>
  /\ tracks = <<>>
  /\ unassignedObjects = <<>>
  /\ unassignedLowScoreObjects = <<>>
  /\ objectsPerCamera = <<>>
  /\ lowScoreObjectsPerCamera = <<>>
  /\ assignments = <<>>
  /\ unassignedObjectsPerCamera = <<>>
  /\ matched = {}
  /\ newTracks = <<>>
  /\ camIt = 0
  /\ log = <<>>
  /\ offered = <<>>
  /\ input = <<>>
  /\ ticks = 0
  /\ variant = "none"
  /\ continuity = -2
  /\ tickStamp = 0
  /\ prevStamp = 0

\* high-score detections at position p that no existing track at p can take:
\* an upper bound on the tracks a tick with these detections creates there
HighCount(dets, p) ==
  LET high == Cardinality({k \in 1..Len(dets) : divider(dets[k]) /\ dets[k].pos = p})
      near == Cardinality({t \in 1..Len(mTracks) : mTracks[t].pos = p})
  IN  IF high > near THEN high - near ELSE 0

\* the tick may start: the behaviour's bounds leave room for it
CanTick(dets) ==
  /\ ticks < MaxTicks
  /\ mCurrentId + HighCount(dets, 0) + HighCount(dets, 10) <= MaxTracks + 1

nextContinuity(dets, single) ==
  IF single /\ Len(dets) = 1 /\ divider(dets[1]) /\ continuity \in {-2, dets[1].pos}
  THEN dets[1].pos ELSE -1

\* the assignment to mLastTimestamp left out
stampStale(last, ts) == last

\* lines 78, 121, 203, 266: mLastTimestamp = timestamp
stampAfterTick(last, ts) == ts

\* ------------------------------------- track(), single camera (lines 71-122)
emptyTickLog(ts) == <<Ev("predictAt", "", 0, NoDet, ts), Ev("correct", "", 0, NoDet, 0)>>

\* the tick is called with a timestamp: the latest one plus a step
Clock(ts) ==
  /\ timestamp' = ts
  /\ tickStamp' = ts
  /\ prevStamp' = tickStamp

\* lines 73-80
SingleEmptyWith(steps) ==
  /\ pc = "idle"
  /\ CanTick(<<>>)
  /\ \E step \in steps :
       /\ Clock(tickStamp + step)
       /\ mLastTimestamp' = stampAfterTick(mLastTimestamp, tickStamp + step)
       /\ log' = emptyTickLog(tickStamp + step)
  /\ mTracks' = correct(mTracks)
  /\ offered' = <<>>
  /\ input' = <<<<>>>>
  /\ ticks' = ticks + 1
  /\ variant' = "single"
  /\ continuity' = -1
  /\ pc' = "done"
  /\ UNCHANGED <<notTracker, mCurrentId, tracks, singleLocals, multiLocals>>

SingleEmpty == SingleEmptyWith(Steps)

\* lines 82-90
SingleBeginWith(inputs, steps) ==
  /\ pc = "idle"
  /\ \E objs \in inputs \ {<<>>}, step \in steps :
       /\ CanTick(objs)
       /\ \E sp \in splitByThreshold(objs) :
            /\ objects' = sp.objects
            /\ lowScoreObjects' = sp.lowScoreObjects
       /\ Clock(tickStamp + step)
       /\ log' = <<Ev("predict", "", 0, NoDet, (tickStamp + step) - mLastTimestamp)>>
       /\ input' = <<objs>>
       /\ continuity' = nextContinuity(objs, TRUE)
  /\ tracks' = getReliableTracks(mTracks)
  /\ offered' = <<>>
  /\ ticks' = ticks + 1
  /\ variant' = "single"
  /\ pc' = "s_a"
  /\ UNCHANGED <<notTracker, mTracks, mCurrentId, mLastTimestamp, unassignedObjects,
                 unassignedLowScoreObjects, multiLocals>>

SingleBegin == SingleBeginWith(SingleInputs, Steps)

\* line 92: reliable tracks against the high-score objects
SingleTierA ==
  /\ pc = "s_a"
  /\ LET m == match(tracks, objects)
     IN /\ mTracks' = assignMeasurements(mTracks, tracks, objects, m.assignments)
        /\ log' = log \o assignEvents("a", tracks, objects, m.assignments)
        /\ tracks' = filterByIndex(tracks, m.unassignedTracks)
        /\ unassignedObjects' = m.unassignedObjects
  /\ offered' = Append(offered, [tier |-> "a", dets |-> objects])
  /\ pc' = "s_b"
  /\ UNCHANGED <<notTracker, mCurrentId, mLastTimestamp, timestamp, objects, lowScoreObjects,
                 unassignedLowScoreObjects, multiLocals, history>>

\* line 99 with the low-score objects left by tier b merged in
remainingMerged(objs, unassigned, lowObjs, unassignedLow) ==
  filterByIndex(objs, unassigned) \o filterByIndex(lowObjs, unassignedLow)

\* line 99: the objects the tiers after the reliable ones are given
remainingObjects(objs, unassigned, lowObjs, unassignedLow) == filterByIndex(objs, unassigned)

\* lines 95-99: the reliable tracks left against the low-score objects
SingleTierB ==
  /\ pc = "s_b"
  /\ LET m == match(tracks, lowScoreObjects)
     IN /\ mTracks' = assignMeasurements(mTracks, tracks, lowScoreObjects, m.assignments)
        /\ log' = log \o assignEvents("b", tracks, lowScoreObjects, m.assignments)
        /\ objects' = remainingObjects(objects, unassignedObjects,
                                       lowScoreObjects, m.unassignedObjects)
        /\ unassignedLowScoreObjects' = m.unassignedObjects
        /\ tracks' = filterByIndex(tracks, m.unassignedTracks)
  /\ offered' = Append(offered, [tier |-> "b", dets |-> lowScoreObjects])
  /\ pc' = "s_c"
  /\ UNCHANGED <<notTracker, mCurrentId, mLastTimestamp, timestamp, lowScoreObjects,
                 unassignedObjects, multiLocals, history>>

\* lines 101-105: unreliable tracks
SingleTierC ==
  /\ pc = "s_c"
  /\ LET unreliableTracks == getUnreliableTracks(mTracks)
         m == match(unreliableTracks, objects)
     IN /\ mTracks' = assignMeasurements(mTracks, unreliableTracks, objects, m.assignments)
        /\ log' = log \o assignEvents("c", unreliableTracks, objects, m.assignments)
        /\ unassignedObjects' = m.unassignedObjects
        /\ objects' = filterByIndex(objects, m.unassignedObjects)
  /\ offered' = Append(offered, [tier |-> "c", dets |-> objects])
  /\ pc' = "s_d"
  /\ UNCHANGED <<notTracker, mCurrentId, mLastTimestamp, timestamp, lowScoreObjects, tracks,
                 unassignedLowScoreObjects, multiLocals, history>>

\* lines 107-108: suspended tracks
SingleTierD ==
  /\ pc = "s_d"
  /\ LET suspendedTracks == getSuspendedTracks(mTracks)
         m == match(suspendedTracks, objects)
     IN /\ mTracks' = assignMeasurements(mTracks, suspendedTracks, objects, m.assignments)
        /\ log' = log \o assignEvents("d", suspendedTracks, objects, m.assignments)
        /\ unassignedObjects' = m.unassignedObjects
  /\ offered' = Append(offered, [tier |-> "d", dets |-> objects])
  /\ pc' = "s_correct"
  /\ UNCHANGED <<notTracker, mCurrentId, mLastTimestamp, timestamp, objects, lowScoreObjects,
                 tracks, unassignedLowScoreObjects, multiLocals, history>>

\* line 111
SingleCorrect ==
  /\ pc = "s_correct"
  /\ mTracks' = correct(mTracks)
  /\ log' = Append(log, Ev("correct", "", 0, NoDet, 0))
  /\ pc' = "s_create"
  /\ UNCHANGED <<notTracker, mCurrentId, mLastTimestamp, timestamp, tracks, singleLocals,
                 multiLocals, offered, history>>

\* lines 114-121
SingleCreate ==
  /\ pc = "s_create"
  /\ LET dets == filterByIndex(objects, unassignedObjects)
     IN /\ mTracks' = createTracks(mTracks, mCurrentId, dets, timestamp)
        /\ mCurrentId' = mCurrentId + Len(dets)
        /\ log' = log \o createEvents(mCurrentId, dets, timestamp)
  /\ mLastTimestamp' = stampAfterTick(mLastTimestamp, timestamp)
  /\ objects' = <<>>
  /\ lowScoreObjects' = <<>>
  /\ unassignedObjects' = <<>>
  /\ unassignedLowScoreObjects' = <<>>
  /\ tracks' = <<>>
  /\ pc' = "done"
  /\ UNCHANGED <<notTracker, timestamp, multiLocals, offered, history>>

\* ---------------------- matchAndAssignMeasurements, batched (lines 124-185)
\* the assignment phase visiting the cameras from last to first
RECURSIVE batchedAssignDescending(_, _, _, _, _)
batchedAssignDescending(ts, trks, objsPerCamera, asg, i) ==
  IF i > Len(objsPerCamera) THEN ts
  ELSE assignMeasurements(batchedAssignDescending(ts, trks, objsPerCamera, asg, i + 1),
                          trks, objsPerCamera[i], asg[i])

\* lines 152-163: the sequential assignment phase, cameras i..numCameras
RECURSIVE batchedAssign(_, _, _, _, _)
batchedAssign(ts, trks, objsPerCamera, asg, i) ==
  IF i > Len(objsPerCamera) THEN ts
  ELSE batchedAssign(assignMeasurements(ts, trks, objsPerCamera[i], asg[i]),
                     trks, objsPerCamera, asg, i + 1)

RECURSIVE batchedEvents(_, _, _, _, _)
batchedEvents(tier, trks, objsPerCamera, asg, i) ==
  IF i > Len(objsPerCamera) THEN <<>>
  ELSE assignEvents(tier, trks, objsPerCamera[i], asg[i])
         \o batchedEvents(tier, trks, objsPerCamera, asg, i + 1)

\* lines 137, 161, 172-181: the tracks no camera's assignment names
batchedUnassignedTracks(trks, asg) ==
  LET isTrackAssigned == [t \in 1..Len(trks) |->
                            \E i \in 1..Len(asg) : \E k \in 1..Len(asg[i]) : asg[i][k][1] = t]
  IN SelectSeq(trks, LAMBDA tr : \E t \in 1..Len(trks) : trks[t] = tr /\ ~isTrackAssigned[t])

\* lines 165-170
batchedFilter(objsPerCamera, unassignedPerCamera) ==
  [i \in 1..Len(objsPerCamera) |-> filterByIndex(objsPerCamera[i], unassignedPerCamera[i])]

tierOf(p) == CASE p = "m_a" -> "a" [] p = "m_b" -> "b" [] p = "m_c" -> "c" [] OTHER -> "d"

tierObjects == IF pc = "m_b" THEN lowScoreObjectsPerCamera ELSE objectsPerCamera

emptySlots(n) == [i \in 1..n |-> <<>>]

\* ------------------------------------- track(), multi camera (lines 194-267)
MultiEmptyWith(steps) ==
  /\ pc = "idle"
  /\ CanTick(<<>>)
  /\ \E step \in steps :
       /\ Clock(tickStamp + step)
       /\ mLastTimestamp' = stampAfterTick(mLastTimestamp, tickStamp + step)
       /\ log' = emptyTickLog(tickStamp + step)
  /\ mTracks' = correct(mTracks)
  /\ offered' = <<>>
  /\ input' = <<>>
  /\ ticks' = ticks + 1
  /\ variant' = "multi"
  /\ continuity' = -1
  /\ pc' = "done"
  /\ UNCHANGED <<notTracker, mCurrentId, tracks, singleLocals, multiLocals>>

MultiEmpty == MultiEmptyWith(Steps)

\* lines 207-220
MultiBeginWith(inputs, steps) ==
  /\ pc = "idle"
  /\ \E cams \in inputs \ {<<>>}, step \in steps :
       /\ CanTick(Flatten(cams))
       /\ \E sp \in {f \in [1..Len(cams) -> UNION {splitByThreshold(cams[i]) : i \in 1..Len(cams)}] :
                       \A i \in 1..Len(cams) : f[i] \in splitByThreshold(cams[i])} :
            /\ objectsPerCamera' = [i \in 1..Len(cams) |-> sp[i].objects]
            /\ lowScoreObjectsPerCamera' = [i \in 1..Len(cams) |-> sp[i].lowScoreObjects]
       /\ Clock(tickStamp + step)
       /\ log' = <<Ev("predict", "", 0, NoDet, (tickStamp + step) - mLastTimestamp)>>
       /\ input' = cams
       /\ assignments' = emptySlots(Len(cams))
       /\ unassignedObjectsPerCamera' = emptySlots(Len(cams))
  /\ tracks' = getReliableTracks(mTracks)
  /\ matched' = {}
  /\ offered' = <<>>
  /\ ticks' = ticks + 1
  /\ variant' = "multi"
  /\ continuity' = -1
  /\ pc' = "m_a"
  /\ UNCHANGED <<notTracker, mTracks, mCurrentId, mLastTimestamp, singleLocals, newTracks, camIt>>

MultiBegin == MultiBeginWith(MultiInputs, Steps)

\* lines 144-149: iteration i of the parallel matching loop
MultiMatch ==
  /\ pc \in {"m_a", "m_b", "m_c", "m_d"}
  /\ tracks # <<>>
  /\ \E i \in (1..Len(tierObjects)) \ matched :
       LET m == match(tracks, tierObjects[i])
       IN /\ assignments' = [assignments EXCEPT ![i] = m.assignments]
          /\ unassignedObjectsPerCamera' =
               [unassignedObjectsPerCamera EXCEPT ![i] = m.unassignedObjects]
          /\ matched' = matched \cup {i}
  /\ UNCHANGED <<notTracker, mTracks, mCurrentId, mLastTimestamp, pc, timestamp, tracks, singleLocals,
                 objectsPerCamera, lowScoreObjectsPerCamera, newTracks, camIt, log,
                 offered, history>>

\* lines 130-134 and 151-184, then the caller's next statement (222-231)
MultiAssign ==
  /\ pc \in {"m_a", "m_b", "m_c", "m_d"}
  /\ tracks = <<>> \/ matched = 1..Len(tierObjects)
  /\ LET ran == tracks # <<>>
         ts == IF ran THEN batchedAssign(mTracks, tracks, tierObjects, assignments, 1)
               ELSE mTracks
         left == IF ran THEN batchedFilter(tierObjects, unassignedObjectsPerCamera)
                 ELSE tierObjects
     IN /\ mTracks' = ts
        /\ log' = IF ran
                  THEN log \o batchedEvents(tierOf(pc), tracks, tierObjects, assignments, 1)
                  ELSE log
        /\ offered' = IF ran
                      THEN Append(offered, [tier |-> tierOf(pc), dets |-> Flatten(tierObjects)])
                      ELSE offered
        /\ objectsPerCamera' = IF pc = "m_b" THEN objectsPerCamera ELSE left
        /\ lowScoreObjectsPerCamera' = IF pc = "m_b" THEN left ELSE lowScoreObjectsPerCamera
        /\ tracks' = CASE pc = "m_a" -> IF ran THEN batchedUnassignedTracks(tracks, assignments)
                                        ELSE tracks
                       [] pc = "m_b" -> getUnreliableTracks(ts)
                       [] pc = "m_c" -> getSuspendedTracks(ts)
                       [] OTHER -> <<>>
  /\ pc' = CASE pc = "m_a" -> "m_b" [] pc = "m_b" -> "m_c" [] pc = "m_c" -> "m_d"
             [] OTHER -> "m_correct"
  /\ assignments' = emptySlots(Len(tierObjects))
  /\ unassignedObjectsPerCamera' = emptySlots(Len(tierObjects))
  /\ matched' = {}
  /\ UNCHANGED <<notTracker, mCurrentId, mLastTimestamp, timestamp, singleLocals, newTracks, camIt,
                 history>>

\* line 234
MultiCorrect ==
  /\ pc = "m_correct"
  /\ mTracks' = correct(mTracks)
  /\ log' = Append(log, Ev("correct", "", 0, NoDet, 0))
  /\ newTracks' = <<>>
  /\ camIt' = 1
  /\ pc' = "m_create"
  /\ UNCHANGED <<notTracker, mCurrentId, mLastTimestamp, timestamp, tracks, singleLocals,
                 objectsPerCamera, lowScoreObjectsPerCamera, assignments,
                 unassignedObjectsPerCamera, matched, offered, history>>

\* the new-track loop iterating forwards
cameraOrderForward(numCameras, k) == k

\* line 246: the camera the k-th iteration of the new-track loop visits
cameraOrder(numCameras, k) == numCameras + 1 - k

\* lines 246-264: one iteration of the new-track loop
MultiCreateCamera ==
  /\ pc = "m_create"
  /\ camIt <= Len(objectsPerCamera)
  /\ LET c == cameraOrder(Len(objectsPerCamera), camIt)
         cameraObjects == objectsPerCamera[c]
         dedup == newTracks # <<>>
         m == match(newTracks, cameraObjects)
         ts == IF dedup
               THEN assignMeasurements(mTracks, newTracks, cameraObjects, m.assignments)
               ELSE mTracks
         rest == IF dedup THEN filterByIndex(cameraObjects, m.unassignedObjects)
                 ELSE cameraObjects
     IN /\ mTracks' = createTracks(ts, mCurrentId, rest, timestamp)
        /\ mCurrentId' = mCurrentId + Len(rest)
        /\ newTracks' = newTracks \o [k \in 1..Len(rest) |->
                                        newTrack(mCurrentId + k - 1, rest[k], timestamp)]
        /\ objectsPerCamera' = [objectsPerCamera EXCEPT ![c] = rest]
        /\ log' = log
                  \o (IF dedup THEN assignEvents("new", newTracks, cameraObjects, m.assignments)
                      ELSE <<>>)
                  \o createEvents(mCurrentId, rest, timestamp)
  /\ camIt' = camIt + 1
  /\ UNCHANGED <<notTracker, mLastTimestamp, pc, timestamp, tracks, singleLocals,
                 lowScoreObjectsPerCamera, assignments, unassignedObjectsPerCamera,
                 matched, offered, history>>

\* line 266
MultiFinish ==
  /\ pc = "m_create"
  /\ camIt > Len(objectsPerCamera)
  /\ mLastTimestamp' = stampAfterTick(mLastTimestamp, timestamp)
  /\ objectsPerCamera' = <<>>
  /\ lowScoreObjectsPerCamera' = <<>>
  /\ assignments' = <<>>
  /\ unassignedObjectsPerCamera' = <<>>
  /\ newTracks' = <<>>
  /\ camIt' = 0
  /\ pc' = "done"
  /\ UNCHANGED <<notTracker, mTracks, mCurrentId, timestamp, tracks, singleLocals, matched, log,
                 offered, history>>

\* lines 79, 122, 204, 267: track() returns
TrackReturn ==
  /\ pc = "done"
  /\ pc' = "idle"
  /\ timestamp' = 0
  /\ log' = <<>>
  /\ offered' = <<>>
  /\ input' = <<>>
  /\ variant' = "none"
  /\ UNCHANGED <<notTracker, mTracks, mCurrentId, mLastTimestamp, tracks, singleLocals,
                 multiLocals, ticks, continuity, tickStamp, prevStamp>>

\* ------------------------------------------------ callback_guard.hpp, mqtt_client.cpp
CbThreads == 1..MaxCbThreads

Callers == {"app", "dtor"}

Kinds == {"connected", "connection_lost", "message_arrived", "on_success", "on_failure"}

MqttInit ==
  /\ stop_requested = FALSE
  /\ callbacks_in_flight = 0
  /\ callbacks_enabled = TRUE
  /\ connected = FALSE
  /\ subscribed = FALSE
  /\ cbPc = [t \in CbThreads |-> "idle"]
  /\ cbKind = [t \in CbThreads |-> "none"]
  /\ should_skip = [t \in CbThreads |-> FALSE]
  /\ discPc = [d \in Callers |-> "idle"]

\* the transport starts delivering a callback on one of its threads
CbInvoke ==
  /\ callbacks_enabled
  /\ \E t \in CbThreads, k \in Kinds :
       /\ cbPc[t] = "idle"
       /\ cbPc' = [cbPc EXCEPT ![t] = "invoked"]
       /\ cbKind' = [cbKind EXCEPT ![t] = k]
  /\ UNCHANGED <<notMqtt, stop_requested, callbacks_in_flight, callbacks_enabled,
                 connected, subscribed, should_skip, discPc>>

\* CallbackGuard's constructor, member initializer: should_skip_(stop_flag.load())
guardLoad(flag) == flag

CbGuardLoad ==
  /\ \E t \in CbThreads :
       /\ cbPc[t] = "invoked"
       /\ should_skip' = [should_skip EXCEPT ![t] = guardLoad(stop_requested)]
       /\ cbPc' = [cbPc EXCEPT ![t] = "loaded"]
  /\ UNCHANGED <<notMqtt, stop_requested, callbacks_in_flight, callbacks_enabled,
                 connected, subscribed, cbKind, discPc>>

\* a counter left as it was
unchanged(n) == n

\* ++counter_ and --counter_ on the atomic counter
preIncrement(n) == n + 1

preDecrement(n) == n - 1

\* CallbackGuard's constructor, body: ++counter_
CbGuardIncrement ==
  /\ \E t \in CbThreads :
       /\ cbPc[t] = "loaded"
       /\ cbPc' = [cbPc EXCEPT ![t] = "guarded"]
  /\ callbacks_in_flight' = preIncrement(callbacks_in_flight)
  /\ UNCHANGED <<notMqtt, stop_requested, callbacks_enabled, connected, subscribed,
                 cbKind, should_skip, discPc>>

\* if (guard.shouldSkip()) return;
CbCheckSkip ==
  /\ \E t \in CbThreads :
       /\ cbPc[t] = "guarded"
       /\ cbPc' = [cbPc EXCEPT ![t] = IF should_skip[t] THEN "exit" ELSE "body"]
  /\ UNCHANGED <<notMqtt, stop_requested, callbacks_in_flight, callbacks_enabled,
                 connected, subscribed, cbKind, should_skip, discPc>>

\* the callback's body (mqtt_client.cpp lines 297-386)
CbBody ==
  /\ \E t \in CbThreads :
       /\ cbPc[t] = "body"
       /\ cbPc' = [cbPc EXCEPT ![t] = "exit"]
       /\ connected' = CASE cbKind[t] = "connected" -> TRUE
                         [] cbKind[t] = "connection_lost" -> FALSE
                         [] OTHER -> connected
       /\ subscribed' = CASE cbKind[t] = "connection_lost" -> FALSE
                          [] cbKind[t] = "on_success" -> TRUE
                          [] cbKind[t] = "on_failure" -> FALSE
                          [] OTHER -> subscribed
  /\ UNCHANGED <<notMqtt, stop_requested, callbacks_in_flight, callbacks_enabled,
                 cbKind, should_skip, discPc>>

\* ~CallbackGuard: --counter_
CbGuardDestroy ==
  /\ \E t \in CbThreads :
       /\ cbPc[t] = "exit"
       /\ cbPc' = [cbPc EXCEPT ![t] = "idle"]
       /\ cbKind' = [cbKind EXCEPT ![t] = "none"]
       /\ should_skip' = [should_skip EXCEPT ![t] = FALSE]
  /\ callbacks_in_flight' = preDecrement(callbacks_in_flight)
  /\ UNCHANGED <<notMqtt, stop_requested, callbacks_enabled, connected, subscribed,
                 discPc>>

\* disconnect(), lines 182-185: stop_requested_.exchange(true)
DisconnectExchange ==
  /\ \E d \in Callers :
       /\ discPc[d] = "idle"
       /\ discPc' = [discPc EXCEPT ![d] = IF stop_requested THEN "returned" ELSE "drain"]
  /\ stop_requested' = TRUE
  /\ UNCHANGED <<notMqtt, callbacks_in_flight, callbacks_enabled, connected, subscribed,
                 cbPc, cbKind, should_skip>>

\* disconnect(), lines 191-193: the drain loop is left once the counter reads 0
DisconnectDrain ==
  /\ \E d \in Callers :
       /\ discPc[d] = "drain"
       /\ callbacks_in_flight = 0
       /\ discPc' = [discPc EXCEPT ![d] = "disable"]
  /\ UNCHANGED <<notMqtt, stop_requested, callbacks_in_flight, callbacks_enabled,
                 connected, subscribed, cbPc, cbKind, should_skip>>

\* disconnect(), line 199: client_->disable_callbacks()
DisconnectDisable ==
  /\ \E d \in Callers :
       /\ discPc[d] = "disable"
       /\ discPc' = [discPc EXCEPT ![d] = "teardown"]
  /\ callbacks_enabled' = FALSE
  /\ UNCHANGED <<notMqtt, stop_requested, callbacks_in_flight, connected, subscribed,
                 cbPc, cbKind, should_skip>>

\* disconnect(), lines 201-216: the bus disconnect, then the flags
DisconnectTeardown ==
  /\ \E d \in Callers :
       /\ discPc[d] = "teardown"
       /\ discPc' = [discPc EXCEPT ![d] = "done"]
  /\ connected' = FALSE
  /\ subscribed' = FALSE
  /\ UNCHANGED <<notMqtt, stop_requested, callbacks_in_flight, callbacks_enabled,
                 cbPc, cbKind, should_skip>>

MqttNext ==
  \/ CbInvoke
  \/ CbGuardLoad
  \/ CbGuardIncrement
  \/ CbCheckSkip
  \/ CbBody
  \/ CbGuardDestroy
  \/ DisconnectExchange
  \/ DisconnectDrain
  \/ DisconnectDisable
  \/ DisconnectTeardown

\* ------------------------------ mqtt_client.cpp: subscriptions, publish, connect
\* the client between its construction and disconnect(): the stop flag is clear,
\* so withGuard runs every callback body
ClientTopics == {"scenescape/data/camera/cam-1", "scenescape/data/camera/cam-3"}

ReturnCodes == MinReturnCode..MaxReturnCode

TokenTypes == {"CONNECT", "SUBSCRIBE", "PUBLISH"}

\* the exit code before any connect attempt has failed: success
NoExitCode == 0

NoFailure == [kind |-> "none", rc |-> 0]

WireCall(op, arg) == [op |-> op, arg |-> arg]

\* a classification that calls every code transient
alwaysRetryable(rc) == TRUE

\* lines 68-79
isRetryableConnectError(rc) ==
  CASE rc = 1 -> FALSE
    [] rc = 2 -> FALSE
    [] rc = 4 -> FALSE
    [] rc = 5 -> FALSE
    [] OTHER -> TRUE

\* a set left as it was
noInsert(set, topic) == set

\* lines 221-222 and 243-244, under subscriptions_mutex_
insert(set, topic) == set \cup {topic}

erase(set, topic) == set \ {topic}

\* a publish() that never drops
neverDropped(isConnected) == FALSE

\* lines 268-271: if (!connected_) return
publishDropped(isConnected) == ~isConnected

ClientInit ==
  /\ pending_subscriptions_ = {}
  /\ exit_code_ = NoExitCode
  /\ wire = <<>>
  /\ wanted = {}
  /\ unsent = {}
  /\ lastConnect = NoFailure
  /\ clLast = [op |-> "none", from |-> 0]
  /\ clCalls = 0
  /\ answered = 0

\* one more operation, and what it was
ClientStep(op) ==
  /\ clCalls < MaxClientCalls
  /\ ~stop_requested
  /\ clCalls' = clCalls + 1
  /\ clLast' = [op |-> op, from |-> Len(wire)]

\* lines 162-178: connect(); the transport may throw
connect ==
  /\ ClientStep("connect")
  /\ \E throws \in BOOLEAN :
       IF throws
       THEN /\ exit_code_' = 1
            /\ lastConnect' = [kind |-> "exception", rc |-> 0]
            /\ wire' = wire
       ELSE /\ wire' = Append(wire, WireCall("connect", ""))
            /\ UNCHANGED <<exit_code_, lastConnect>>
  /\ UNCHANGED <<notClient, connected, subscribed, pending_subscriptions_, wanted, unsent,
                 answered>>

\* lines 219-239; the transport may throw
subscribe ==
  /\ ClientStep("subscribe")
  /\ \E topic \in ClientTopics, throws \in BOOLEAN :
       /\ pending_subscriptions_' = insert(pending_subscriptions_, topic)
       /\ wanted' = wanted \cup {topic}
       /\ IF ~connected
          THEN UNCHANGED <<wire, subscribed>>
          ELSE /\ wire' = Append(wire, WireCall("subscribe", topic))
               /\ subscribed' = IF throws THEN FALSE ELSE subscribed
  /\ UNCHANGED <<notClient, connected, exit_code_, unsent, lastConnect, answered>>

\* lines 241-265; the transport may throw
unsubscribe ==
  /\ ClientStep("unsubscribe")
  /\ \E topic \in ClientTopics, throws \in BOOLEAN :
       /\ pending_subscriptions_' = erase(pending_subscriptions_, topic)
       /\ wanted' = wanted \ {topic}
       /\ IF ~connected
          THEN UNCHANGED <<wire, subscribed>>
          ELSE /\ wire' = Append(wire, WireCall("unsubscribe", topic))
               /\ subscribed' =
                    IF ~throws /\ erase(pending_subscriptions_, topic) = {}
                    THEN FALSE ELSE subscribed
  /\ UNCHANGED <<notClient, connected, exit_code_, unsent, lastConnect, answered>>

\* lines 267-280; the payload is named by the number of the call
publish ==
  /\ ClientStep("publish")
  /\ LET payload == clCalls + 1
     IN /\ wire' = IF publishDropped(connected) THEN wire
                   ELSE Append(wire, WireCall("publish", payload))
        /\ unsent' = IF connected THEN unsent ELSE unsent \cup {payload}
  /\ UNCHANGED <<notClient, connected, subscribed, pending_subscriptions_, exit_code_,
                 wanted, lastConnect, answered>>

\* a connected() that re-issues nothing
noRequests(topics) == <<>>

\* the requests of lines 307-316, one for each topic in turn
RECURSIVE resubscribe(_)
resubscribe(topics) ==
  IF topics = {} THEN <<>>
  ELSE LET topic == CHOOSE t \in topics : TRUE
       IN <<WireCall("subscribe", topic)>> \o resubscribe(topics \ {topic})

\* lines 297-319: the connected callback, on the first connect and on a reconnect
on_connected ==
  /\ ClientStep("connected")
  /\ connected' = TRUE
  /\ wire' = wire \o resubscribe(pending_subscriptions_)
  /\ UNCHANGED <<notClient, subscribed, pending_subscriptions_, exit_code_, wanted,
                 unsent, lastConnect, answered>>

\* lines 321-328
connection_lost ==
  /\ ClientStep("connection_lost")
  /\ connected' = FALSE
  /\ subscribed' = FALSE
  /\ UNCHANGED <<notClient, pending_subscriptions_, exit_code_, wire, wanted, unsent,
                 lastConnect, answered>>

\* the subscribe requests handed to the transport so far
SubscribeRequests == {i \in 1..Len(wire) : wire[i].op = "subscribe"}

\* the transport completes a subscribe token once, and only one it was handed
Answer(type) ==
  /\ type = "SUBSCRIBE" => answered < Cardinality(SubscribeRequests)
  /\ answered' = IF type = "SUBSCRIBE" THEN answered + 1 ELSE answered

\* lines 345-365
on_success ==
  /\ ClientStep("on_success")
  /\ \E type \in TokenTypes :
       /\ Answer(type)
       /\ subscribed' = IF type = "SUBSCRIBE" THEN TRUE ELSE subscribed
  /\ UNCHANGED <<notClient, connected, pending_subscriptions_, exit_code_, wire, wanted,
                 unsent, lastConnect>>

\* lines 367-386
on_failure ==
  /\ ClientStep("on_failure")
  /\ \E type \in TokenTypes, rc \in ReturnCodes :
       /\ Answer(type)
       /\ exit_code_' =
            IF type = "CONNECT"
            THEN (IF isRetryableConnectError(rc) THEN 1 ELSE 0)
            ELSE exit_code_
       /\ lastConnect' =
            IF type = "CONNECT" THEN [kind |-> "failure", rc |-> rc] ELSE lastConnect
       /\ subscribed' = IF type = "SUBSCRIBE" THEN FALSE ELSE subscribed
  /\ UNCHANGED <<notClient, connected, pending_subscriptions_, wire, wanted, unsent>>

ClientNext ==
  \/ connect
  \/ subscribe
  \/ unsubscribe
  \/ publish
  \/ on_connected
  \/ connection_lost
  \/ on_success
  \/ on_failure

\* ------------------------- mqtt_client.cpp: subscribe() racing the callbacks
\* what the subscribe race never touches
notRace ==
  <<trackerVars, registryVars, topicVars, handlerVars, configVars, stop_requested,
    callbacks_in_flight, callbacks_enabled, subscribed, cbPc, cbKind, should_skip, discPc,
    exit_code_, unsent, lastConnect, clLast, answered, deliveryVars, transported,
    allowlistVars, healthVars>>

RaceInit ==
  /\ subPc = "idle"
  /\ subTopic = ""
  /\ connPc = "idle"
  /\ needFrom = [t \in ClientTopics |-> 0]

\* one more call or callback
RaceStep ==
  /\ clCalls < MaxClientCalls
  /\ clCalls' = clCalls + 1

\* subscribe(), lines 220-223: the insert under subscriptions_mutex_
subscribeInsert ==
  /\ subPc = "idle"
  /\ RaceStep
  /\ \E topic \in ClientTopics :
       /\ pending_subscriptions_' = insert(pending_subscriptions_, topic)
       /\ wanted' = wanted \cup {topic}
       /\ subTopic' = topic
  /\ subPc' = "read"
  /\ UNCHANGED <<notRace, connected, wire, connPc, needFrom>>

\* subscribe(), lines 225-228: the read of connected_
subscribeRead ==
  /\ subPc = "read"
  /\ subPc' = IF ~connected THEN "idle" ELSE "request"
  /\ UNCHANGED <<notRace, connected, pending_subscriptions_, wire, wanted, clCalls, subTopic,
                 connPc, needFrom>>

\* subscribe(), lines 230-238: the request
subscribeRequest ==
  /\ subPc = "request"
  /\ wire' = Append(wire, WireCall("subscribe", subTopic))
  /\ subPc' = "idle"
  /\ UNCHANGED <<notRace, connected, pending_subscriptions_, wanted, clCalls, subTopic,
                 connPc, needFrom>>

\* unsubscribe(), lines 241-265, called by the thread that calls subscribe()
unsubscribeCall ==
  /\ subPc = "idle"
  /\ RaceStep
  /\ \E topic \in ClientTopics :
       /\ pending_subscriptions_' = erase(pending_subscriptions_, topic)
       /\ wanted' = wanted \ {topic}
       /\ wire' = IF ~connected THEN wire ELSE Append(wire, WireCall("unsubscribe", topic))
       /\ needFrom' = [needFrom EXCEPT ![topic] = Len(wire')]
  /\ UNCHANGED <<notRace, connected, subPc, subTopic, connPc>>

\* connected(), line 302: connected_ = true
connectedSet ==
  /\ connPc = "idle"
  /\ RaceStep
  /\ connected' = TRUE
  /\ needFrom' = [t \in ClientTopics |-> Len(wire)]
  /\ connPc' = "resubscribe"
  /\ UNCHANGED <<notRace, pending_subscriptions_, wire, wanted, subPc, subTopic>>

\* connected(), lines 305-317: the loop under subscriptions_mutex_
connectedResubscribe ==
  /\ connPc = "resubscribe"
  /\ wire' = wire \o resubscribe(pending_subscriptions_)
  /\ connPc' = "idle"
  /\ UNCHANGED <<notRace, connected, pending_subscriptions_, wanted, clCalls, subPc, subTopic,
                 needFrom>>

\* connection_lost(), lines 321-328, at any point of the other two
connectionLost ==
  /\ RaceStep
  /\ connected
  /\ connected' = FALSE
  /\ UNCHANGED <<notRace, pending_subscriptions_, wire, wanted, subPc, subTopic, connPc,
                 needFrom>>

RaceNext ==
  \/ subscribeInsert
  \/ subscribeRead
  \/ subscribeRequest
  \/ unsubscribeCall
  \/ connectedSet
  \/ connectedResubscribe
  \/ connectionLost

\* ------------------- mqtt_client.cpp: message_arrived and setMessageCallback
\* what message delivery never touches
notDelivery ==
  <<trackerVars, mqttVars, registryVars, topicVars, handlerVars, clientVars, configVars,
    raceVars, transported, allowlistVars, healthVars>>

AppThread == <<"app", 0>>

TransportThread(t) == <<"transport", t>>

Callbacks == {"nullptr", "handleCameraMessage"}

\* a lock that is granted whoever holds the mutex
noMutex(mutex) == TRUE

\* std::lock_guard's constructor returns once no thread holds the mutex
lock_guard(mutex) == mutex = {}

DeliveryInit ==
  /\ callback_mutex_ = {}
  /\ message_callback_ = "nullptr"
  /\ arrPc = [t \in CbThreads |-> "idle"]
  /\ setPc = "idle"
  /\ setArg = "nullptr"
  /\ cleared = FALSE
  /\ arrivals = 0
  /\ setCalls = 0

\* setMessageCallback(callback) is called: MessageHandler::start() with the
\* handler's callback, MessageHandler::stop() with nullptr
setMessageCallbackCall ==
  /\ setPc = "idle"
  /\ setCalls < MaxSetCalls
  /\ setCalls' = setCalls + 1
  /\ \E callback \in Callbacks :
       /\ setArg' = callback
       /\ cleared' = IF callback = "nullptr" THEN cleared ELSE FALSE
  /\ setPc' = "lock"
  /\ UNCHANGED <<notDelivery, callback_mutex_, message_callback_, arrPc, arrivals>>

\* line 283
setMessageCallbackLock ==
  /\ setPc = "lock"
  /\ lock_guard(callback_mutex_)
  /\ callback_mutex_' = callback_mutex_ \cup {AppThread}
  /\ setPc' = "assign"
  /\ UNCHANGED <<notDelivery, message_callback_, arrPc, setArg, cleared, arrivals, setCalls>>

\* lines 284-285: the assignment, the unlock and the return
setMessageCallbackAssign ==
  /\ setPc = "assign"
  /\ message_callback_' = setArg
  /\ callback_mutex_' = callback_mutex_ \ {AppThread}
  /\ cleared' = (setArg = "nullptr")
  /\ setPc' = "idle"
  /\ UNCHANGED <<notDelivery, arrPc, setArg, arrivals, setCalls>>

\* lines 330-334: the transport calls message_arrived() on one of its threads
messageArrived(t) ==
  /\ arrPc[t] = "idle"
  /\ arrivals < MaxMessages
  /\ arrivals' = arrivals + 1
  /\ arrPc' = [arrPc EXCEPT ![t] = "lock"]
  /\ UNCHANGED <<notDelivery, callback_mutex_, message_callback_, setPc, setArg, cleared,
                 setCalls>>

\* line 336
messageArrivedLock(t) ==
  /\ arrPc[t] = "lock"
  /\ lock_guard(callback_mutex_)
  /\ callback_mutex_' = callback_mutex_ \cup {TransportThread(t)}
  /\ arrPc' = [arrPc EXCEPT ![t] = "test"]
  /\ UNCHANGED <<notDelivery, message_callback_, setPc, setArg, cleared, arrivals, setCalls>>

\* lines 337-338: the callback is entered when one is registered
messageArrivedTest(t) ==
  /\ arrPc[t] = "test"
  /\ arrPc' = [arrPc EXCEPT ![t] = IF message_callback_ # "nullptr" THEN "call" ELSE "unlock"]
  /\ UNCHANGED <<notDelivery, callback_mutex_, message_callback_, setPc, setArg, cleared,
                 arrivals, setCalls>>

\* line 338: handleCameraMessage returns
messageArrivedReturn(t) ==
  /\ arrPc[t] = "call"
  /\ arrPc' = [arrPc EXCEPT ![t] = "unlock"]
  /\ UNCHANGED <<notDelivery, callback_mutex_, message_callback_, setPc, setArg, cleared,
                 arrivals, setCalls>>

\* lines 339-340: the lock_guard goes out of scope
messageArrivedUnlock(t) ==
  /\ arrPc[t] = "unlock"
  /\ callback_mutex_' = callback_mutex_ \ {TransportThread(t)}
  /\ arrPc' = [arrPc EXCEPT ![t] = "idle"]
  /\ UNCHANGED <<notDelivery, message_callback_, setPc, setArg, cleared, arrivals, setCalls>>

DeliveryNext ==
  \/ setMessageCallbackCall
  \/ setMessageCallbackLock
  \/ setMessageCallbackAssign
  \/ \E t \in CbThreads :
       \/ messageArrived(t)
       \/ messageArrivedLock(t)
       \/ messageArrivedTest(t)
       \/ messageArrivedReturn(t)
       \/ messageArrivedUnlock(t)

\* --------------------------------------------- scene_registry.{hpp,cpp}
CameraUids == {"cam-1", "cam+2"}

\* scene_loader.hpp: a Camera and a Scene, reduced to the fields the registry reads
Camera(uid) == [uid |-> uid, name |-> "camera " \o uid]

Scene(uid, name, cameras) == [uid |-> uid, name |-> name, cameras |-> cameras]

SceneIds == {<<"scene-1", "Lobby">>, <<"scene/2", "Yard">>}

CameraLists ==
  UNION {{[i \in 1..k |-> Camera(f[i])] : f \in [1..k -> CameraUids]} : k \in 0..MaxSceneCams}

Scenes == {Scene(id[1], id[2], cams) : id \in SceneIds, cams \in CameraLists}

SceneLists == UNION {[1..k -> Scenes] : k \in 0..MaxScenes}

\* the null pointer the lookups return
nullptr == [null |-> TRUE]

NoError == [camera_id |-> "", scene1 |-> "", scene2 |-> ""]

\* an unordered_map without entries
NoEntries == [uid \in {} |-> 0]

\* the error with the two scene names exchanged
DuplicateCameraErrorSwapped(camera_id, scene1, scene2) ==
  [camera_id |-> camera_id, scene1 |-> scene2, scene2 |-> scene1]

DuplicateCameraError(camera_id, scene1, scene2) ==
  [camera_id |-> camera_id, scene1 |-> scene1, scene2 |-> scene2]

\* a clear() that keeps the entries
keepEntries(entries) == entries

\* lines 11-12: unordered_map::clear()
clear(entries) == NoEntries

\* lines 17-33: the two loops from (scene_idx, cam_idx) on; indices count from 1
RECURSIVE buildMappings(_, _, _, _, _)
buildMappings(scenes, toScene, toCamera, scene_idx, cam_idx) ==
  IF scene_idx > Len(scenes)
  THEN [camera_to_scene |-> toScene, camera_to_camera |-> toCamera, error |-> NoError]
  ELSE LET scene == scenes[scene_idx]
       IN IF cam_idx > Len(scene.cameras)
          THEN buildMappings(scenes, toScene, toCamera, scene_idx + 1, 1)
          ELSE LET camera == scene.cameras[cam_idx]
               IN IF camera.uid \in DOMAIN toScene
                  THEN [camera_to_scene |-> toScene, camera_to_camera |-> toCamera,
                        error |-> DuplicateCameraError(camera.uid,
                                                       scenes[toScene[camera.uid]].name,
                                                       scene.name)]
                  ELSE buildMappings(scenes,
                                     toScene @@ (camera.uid :> scene_idx),
                                     toCamera @@ (camera.uid :> cam_idx),
                                     scene_idx, cam_idx + 1)

\* lines 36-42
find_scene_for_camera(camera_id) ==
  IF camera_id \notin DOMAIN camera_to_scene_ THEN nullptr
  ELSE scenes_[camera_to_scene_[camera_id]]

\* lines 44-56
find_camera(camera_id) ==
  IF camera_id \notin DOMAIN camera_to_scene_ THEN nullptr
  ELSE IF camera_id \notin DOMAIN camera_to_camera_ THEN nullptr
  ELSE scenes_[camera_to_scene_[camera_id]].cameras[camera_to_camera_[camera_id]]

\* scene_registry.hpp lines 73, 94, 99, 104
get_all_scenes == scenes_

empty == scenes_ = <<>>

camera_count == Cardinality(DOMAIN camera_to_scene_)

scene_count == Len(scenes_)

RegistryInit ==
  /\ scenes_ = <<>>
  /\ camera_to_scene_ = NoEntries
  /\ camera_to_camera_ = NoEntries
  /\ regError = NoError
  /\ regArg = <<>>
  /\ regBefore = <<<<>>, NoEntries, NoEntries>>
  /\ regCalls = 0

\* lines 8-34: one call with an argument from lists, returning or throwing
registerFrom(lists) ==
  /\ \E scenes \in lists :
       LET built == buildMappings(scenes, clear(camera_to_scene_),
                                  clear(camera_to_camera_), 1, 1)
       IN /\ scenes_' = scenes
          /\ camera_to_scene_' = built.camera_to_scene
          /\ camera_to_camera_' = built.camera_to_camera
          /\ regError' = built.error
          /\ regArg' = scenes
  /\ regBefore' = <<scenes_, camera_to_scene_, camera_to_camera_>>
  /\ regCalls' = regCalls + 1

register_scenes ==
  /\ regCalls < MaxRegCalls
  /\ registerFrom(SceneLists)
  /\ UNCHANGED notRegistry

\* ------------------------------------------------------ topic_utils.cpp
\* character codes: NUL, tab, newline, space, '#', '$', '+', '-', '.', '/', '0',
\* '9', ':', '@', 'A', 'Z', '[', '_', '`', 'a', 'z', '{', DEL and a byte above 127
Chars == {0, 9, 10, 32, 35, 36, 43, 45, 46, 47, 48, 57, 58, 64, 65, 90, 91, 95, 96,
          97, 122, 123, 127, 233}

Segments == UNION {[1..k -> Chars] : k \in 0..MaxSegLen}

\* a classifier that takes every printable character
isprint(c) == c \in 32..126

\* line 17: std::isalnum in the "C" locale, which nothing in the program changes
isalnum(c) == c \in 48..57 \/ c \in 65..90 \/ c \in 97..122

\* lines 10-25; 45, 95 and 46 are '-', '_' and '.'
isValidTopicSegment(seg) ==
  IF seg = <<>> THEN FALSE
  ELSE \A k \in 1..Len(seg) :
         isalnum(seg[k]) \/ seg[k] = 45 \/ seg[k] = 95 \/ seg[k] = 46

TopicInit ==
  /\ segment = <<>>
  /\ segValid = FALSE
  /\ segChecked = FALSE

\* one call of the predicate
CheckSegment ==
  /\ ~segChecked
  /\ \E seg \in Segments :
       /\ segment' = seg
       /\ segValid' = isValidTopicSegment(seg)
  /\ segChecked' = TRUE
  /\ UNCHANGED notTopic

TopicNext == CheckSegment

\* ---------------------------------------------------- message_handler.cpp
HandlerThreads == 1..MaxHandlerThreads

\* the characters of the strings that become topic segments
codes ==
  ("scenescape" :> <<115, 99, 101, 110, 101, 115, 99, 97, 112, 101>>)
    @@ ("data" :> <<100, 97, 116, 97>>)
    @@ ("camera" :> <<99, 97, 109, 101, 114, 97>>)
    @@ ("scene" :> <<115, 99, 101, 110, 101>>)
    @@ ("cam-1" :> <<99, 97, 109, 45, 49>>)
    @@ ("cam+2" :> <<99, 97, 109, 43, 50>>)
    @@ ("cam-9" :> <<99, 97, 109, 45, 57>>)
    @@ ("cam-3" :> <<99, 97, 109, 45, 51>>)
    @@ ("scene-1" :> <<115, 99, 101, 110, 101, 45, 49>>)
    @@ ("scene/2" :> <<115, 99, 101, 110, 101, 47, 50>>)
    @@ ("person" :> <<112, 101, 114, 115, 111, 110>>)
    @@ ("car" :> <<99, 97, 114>>)
    @@ ("car/1" :> <<99, 97, 114, 47, 49>>)

\* the topic constants, and the two patterns as the segments they are filled with
TOPIC_CAMERA_PREFIX == "scenescape/data/camera/"

TOPIC_CAMERA_SUBSCRIBE_PATTERN(camera_id) == <<"scenescape", "data", "camera", camera_id>>

TOPIC_SCENE_DATA_PATTERN(scene_id, category) ==
  <<"scenescape", "data", "scene", scene_id, category>>

\* an inbound topic: its first prefix_len characters (fewer if it is shorter)
\* and what follows them
Topic(head, rest) == [head |-> head, rest |-> rest]

\* a payload: does it parse, does it conform to the camera schema, what /id,
\* /timestamp and /objects are, the characters of the /timestamp string, and the
\* members of /objects: each a category key with the number of its detections
\* that are objects with a complete bounding box
Payload(json, conforms, id, ts, stamp, objs, members) ==
  [json |-> json, conforms |-> conforms, id |-> id, timestamp |-> ts, stamp |-> stamp,
   objects |-> objs, members |-> members]

\* "20", and a string with an embedded NUL (written \u0000 in the JSON text)
Stamp == <<50, 48>>

StampWithNul == <<50, 0, 48>>

MemberLists ==
  {<<>>, <<<<"person", 1>>>>, <<<<"car/1", 1>>>>, <<<<"person", 1>>, <<"car", 1>>>>,
   <<<<"car/1", 1>>, <<"person", 1>>>>, <<<<"person", 0>>, <<"car", 1>>>>}

Payloads ==
  {Payload(TRUE, TRUE, "string", "string", Stamp, "object", members) :
     members \in MemberLists}
    \cup {Payload(FALSE, FALSE, "missing", "missing", <<>>, "missing", <<>>),
          Payload(TRUE, FALSE, "string", "string", Stamp, "object", <<<<"person", 1>>>>),
          Payload(TRUE, FALSE, "string", "string", StampWithNul, "object",
                  <<<<"person", 1>>>>)}
    \cup {Payload(TRUE, FALSE, kind, "string", Stamp, "object", <<<<"person", 1>>>>) :
            kind \in {"missing", "number"}}
    \cup {Payload(TRUE, FALSE, "string", kind, <<>>, "object", <<<<"person", 1>>>>) :
            kind \in {"missing", "number"}}
    \cup {Payload(TRUE, FALSE, "string", "string", Stamp, kind, <<>>) :
            kind \in {"missing", "array"}}

WellFormed ==
  Payload(TRUE, TRUE, "string", "string", Stamp, "object", <<<<"person", 1>>>>)

Messages ==
  {<<Topic(TOPIC_CAMERA_PREFIX, "cam-1"), payload>> : payload \in Payloads}
    \cup {<<topic, WellFormed>> :
            topic \in {Topic(TOPIC_CAMERA_PREFIX, "cam-9"),
                        Topic(TOPIC_CAMERA_PREFIX, ""),
                        Topic("scenescape/", ""),
                        Topic("scenescape/data/sensor/", "cam-1")}}

NoMessage ==
  <<Topic("", ""), Payload(FALSE, FALSE, "missing", "missing", <<>>, "missing", <<>>)>>

\* the scene files the service is started with
StartupSceneLists ==
  {<<>>,
   <<Scene("scene-1", "Lobby", <<Camera("cam-1"), Camera("cam+2")>>)>>,
   <<Scene("scene/2", "Yard", <<Camera("cam-1"), Camera("cam-3")>>)>>}

\* scene_registry.cpp lines 74-83
get_all_camera_ids == DOMAIN camera_to_scene_

\* the suffix taken without looking at the prefix
suffixOnly(topic) == topic.rest

\* lines 232-245: the empty view when the topic is no longer than the prefix or
\* does not start with it
extractCameraId(topic) ==
  IF topic.rest = "" THEN ""
  ELSE IF topic.head # TOPIC_CAMERA_PREFIX THEN ""
  ELSE topic.rest

\* a string read through a char pointer ends at its first NUL: GetString() of
\* line 279 assigned to a std::string, c_str() of line 365 copied into a Value
untilNul(chars) ==
  IF \E i \in 1..Len(chars) : chars[i] = 0
  THEN SubSeq(chars, 1, (CHOOSE i \in 1..Len(chars) :
                           chars[i] = 0 /\ \A j \in 1..(i - 1) : chars[j] # 0) - 1)
  ELSE chars

GetString(chars) == untilNul(chars)

c_str(chars) == untilNul(chars)

\* every member of /objects, whatever its value holds
everyMember(members) == [i \in 1..Len(members) |-> members[i][1]]

\* lines 287-334: a member is stored only when it has a detection that was kept
storedMembers(members) == SelectSeq(members, LAMBDA m : m[2] > 0)

parseObjects(members) == everyMember(storedMembers(members))

\* the empty optional parseCameraMessage returns
nullopt == [nullopt |-> TRUE]

\* lines 247-337
parseCameraMessage(payload) ==
  IF ~payload.json THEN nullopt
  ELSE IF schema_validation_ /\ camera_schema_ /\ ~payload.conforms THEN nullopt
  ELSE IF payload.id # "string" THEN nullopt
  ELSE IF payload.timestamp # "string" THEN nullopt
  ELSE IF payload.objects # "object" THEN nullopt
  ELSE [timestamp |-> GetString(payload.stamp), objects |-> parseObjects(payload.members)]

\* an increment that is lost
lost_add(n) == n

\* operator++ of an atomic counter
fetch_add(n) == n + 1

HandlerInit ==
  /\ schema_validation_ = FALSE
  /\ camera_schema_ = FALSE
  /\ received_count_ = 0
  /\ published_count_ = 0
  /\ rejected_count_ = 0
  /\ validated_categories_ = {}
  /\ hState = "none"
  /\ subscribeCalls = {}
  /\ unsubscribeCalls = {}
  /\ publishCalls = {}
  /\ hPc = [t \in HandlerThreads |-> "idle"]
  /\ hMsg = [t \in HandlerThreads |-> NoMessage]
  /\ hIt = [t \in HandlerThreads |-> 0]
  /\ hRejected = [t \in HandlerThreads |-> 0]
  /\ hPublished = [t \in HandlerThreads |-> 0]
  /\ hCalls = 0
  /\ hDone = [count |-> 0, rejected |-> 0, published |-> 0]
  /\ hSent = [t \in HandlerThreads |-> <<>>]
  /\ busLog = <<>>

\* startup: the scenes of the scene file are registered
LoadScenes ==
  /\ hState = "none"
  /\ regCalls = 0
  /\ registerFrom(StartupSceneLists)
  /\ UNCHANGED <<notHandler, handlerVars>>

\* lines 43-70: the constructor; the schema may fail to load
MessageHandler ==
  /\ hState = "none"
  /\ regCalls > 0
  /\ regError = NoError
  /\ \E schema_validation \in BOOLEAN, loaded \in BOOLEAN :
       /\ schema_validation_' = schema_validation
       /\ camera_schema_' = (schema_validation /\ loaded)
  /\ hState' = "constructed"
  /\ UNCHANGED <<notHandler, registryVars, received_count_, published_count_,
                 rejected_count_, validated_categories_, subscribeCalls,
                 unsubscribeCalls, publishCalls, hPc, hMsg, hIt, hRejected, hPublished,
                 hCalls, hDone, hSent, busLog>>

\* the order a loop over the ids takes them in: the container's iteration
\* order, the same in start() and in stop()
Ordered(ids) ==
  CHOOSE order \in [1..Cardinality(ids) -> ids] :
    \A a, b \in 1..Cardinality(ids) : order[a] = order[b] => a = b

\* every registered id, the predicate left out
unvalidatedCameraIds == get_all_camera_ids

\* the camera ids start() and stop() build a topic from (lines 109-110, 136-137)
validCameraIds == {id \in get_all_camera_ids : isValidTopicSegment(codes[id])}

BusCall(op, arg) == [op |-> op, arg |-> arg]

\* lines 95-97 and line 142
setMessageCallback(callback) == BusCall("setMessageCallback", <<callback>>)

\* lines 93-127: the callback first, then one subscribe per valid camera id
start ==
  /\ hState = "constructed"
  /\ hState' = "started"
  /\ subscribeCalls' =
       subscribeCalls \cup
         {TOPIC_CAMERA_SUBSCRIBE_PATTERN(camera_id) : camera_id \in validCameraIds}
  /\ LET camera_ids == Ordered(validCameraIds)
     IN busLog' =
         busLog \o <<setMessageCallback("handleCameraMessage")>>
           \o [i \in 1..Len(camera_ids) |->
                BusCall("subscribe", TOPIC_CAMERA_SUBSCRIBE_PATTERN(camera_ids[i]))]
  /\ UNCHANGED <<notHandler, registryVars, schema_validation_, camera_schema_,
                 received_count_, published_count_, rejected_count_,
                 validated_categories_, unsubscribeCalls, publishCalls, hPc, hMsg, hIt,
                 hRejected, hPublished, hCalls, hDone, hSent>>

\* lines 129-143: one unsubscribe per valid camera id, then the callback is cleared
stop ==
  /\ hState = "started"
  /\ hState' = "stopped"
  /\ unsubscribeCalls' =
       unsubscribeCalls \cup
         {TOPIC_CAMERA_SUBSCRIBE_PATTERN(camera_id) : camera_id \in validCameraIds}
  /\ LET camera_ids == Ordered(validCameraIds)
     IN busLog' =
         busLog
           \o [i \in 1..Len(camera_ids) |->
                BusCall("unsubscribe", TOPIC_CAMERA_SUBSCRIBE_PATTERN(camera_ids[i]))]
           \o <<setMessageCallback("nullptr")>>
  /\ UNCHANGED <<notHandler, registryVars, schema_validation_, camera_schema_,
                 received_count_, published_count_, rejected_count_,
                 validated_categories_, subscribeCalls, publishCalls, hPc, hMsg, hIt,
                 hRejected, hPublished, hCalls, hDone, hSent>>

\* lines 145-146: the transport delivers a message; received_count_++
HandleBegin(t) ==
  /\ hState = "started"
  /\ hPc[t] = "idle"
  /\ hCalls < MaxMessages
  /\ \E msg \in Messages : hMsg' = [hMsg EXCEPT ![t] = msg]
  /\ received_count_' = fetch_add(received_count_)
  /\ hCalls' = hCalls + 1
  /\ hPc' = [hPc EXCEPT ![t] = "route"]
  /\ hIt' = [hIt EXCEPT ![t] = 0]
  /\ hRejected' = [hRejected EXCEPT ![t] = 0]
  /\ hPublished' = [hPublished EXCEPT ![t] = 0]
  /\ hSent' = [hSent EXCEPT ![t] = <<>>]
  /\ UNCHANGED <<notHandler, registryVars, schema_validation_, camera_schema_,
                 published_count_, rejected_count_, validated_categories_, hState,
                 subscribeCalls, unsubscribeCalls, publishCalls, hDone, busLog>>

\* does the handler drop the message (lines 148-195)
dropped(msg) ==
  \/ extractCameraId(msg[1]) = ""
  \/ parseCameraMessage(msg[2]) = nullopt
  \/ find_scene_for_camera(extractCameraId(msg[1])) = nullptr

\* lines 148-195: camera id, parse, scene lookup; rejected_count_++ and return on
\* the first that fails
HandleRoute(t) ==
  /\ hPc[t] = "route"
  /\ IF dropped(hMsg[t])
     THEN /\ rejected_count_' = fetch_add(rejected_count_)
          /\ hRejected' = [hRejected EXCEPT ![t] = @ + 1]
          /\ hPc' = [hPc EXCEPT ![t] = "done"]
          /\ hIt' = hIt
     ELSE /\ hPc' = [hPc EXCEPT ![t] = "category"]
          /\ hIt' = [hIt EXCEPT ![t] = 1]
          /\ UNCHANGED <<rejected_count_, hRejected>>
  /\ UNCHANGED <<notHandler, registryVars, schema_validation_, camera_schema_,
                 received_count_, published_count_, validated_categories_, hState,
                 subscribeCalls, unsubscribeCalls, publishCalls, hMsg, hPublished,
                 hCalls, hDone, hSent, busLog>>

\* the category the loop of lines 198-229 is at
category(t) == parseCameraMessage(hMsg[t][2]).objects[hIt[t]]

\* lines 198-215: the loop test and the critical section on the category cache
HandleCategory(t) ==
  /\ hPc[t] = "category"
  /\ IF hIt[t] > Len(parseCameraMessage(hMsg[t][2]).objects)
     THEN /\ hPc' = [hPc EXCEPT ![t] = "done"]
          /\ UNCHANGED <<validated_categories_, hIt>>
     ELSE LET is_new == category(t) \notin validated_categories_
          IN IF is_new /\ ~isValidTopicSegment(codes[category(t)])
             THEN /\ hIt' = [hIt EXCEPT ![t] = @ + 1]
                  /\ UNCHANGED <<validated_categories_, hPc>>
             ELSE /\ validated_categories_' = validated_categories_ \cup {category(t)}
                  /\ hPc' = [hPc EXCEPT ![t] = "publish"]
                  /\ hIt' = hIt
  /\ UNCHANGED <<notHandler, registryVars, schema_validation_, camera_schema_,
                 received_count_, published_count_, rejected_count_, hState,
                 subscribeCalls, unsubscribeCalls, publishCalls, hMsg, hRejected,
                 hPublished, hCalls, hDone, hSent, busLog>>

\* lines 355-414: id, name and timestamp of the scene message; scene_schema_ is
\* not consulted (line 406)
buildDummySceneMessage(scene, stamp) ==
  [id |-> scene.uid, name |-> scene.name, timestamp |-> c_str(stamp), validated |-> FALSE]

\* lines 217-222, and MqttClient::publish (mqtt_client.cpp lines 267-280)
HandlePublish(t) ==
  /\ hPc[t] = "publish"
  /\ LET scene == find_scene_for_camera(extractCameraId(hMsg[t][1]))
         scene_message ==
           buildDummySceneMessage(scene, parseCameraMessage(hMsg[t][2]).timestamp)
         output_topic == TOPIC_SCENE_DATA_PATTERN(scene.uid, category(t))
     IN /\ publishCalls' = publishCalls \cup {output_topic}
        /\ hSent' = [hSent EXCEPT ![t] =
                       Append(@, [topic |-> output_topic, payload |-> scene_message])]
  /\ transported' = IF publishDropped(connected) THEN transported ELSE transported + 1
  /\ hPublished' = [hPublished EXCEPT ![t] = @ + 1]
  /\ hPc' = [hPc EXCEPT ![t] = "count"]
  /\ UNCHANGED <<notPublish, registryVars, schema_validation_, camera_schema_,
                 received_count_, published_count_, rejected_count_,
                 validated_categories_, hState, subscribeCalls, unsubscribeCalls, hMsg,
                 hIt, hRejected, hCalls, hDone, busLog>>

\* line 223, and the loop's increment
HandleCount(t) ==
  /\ hPc[t] = "count"
  /\ published_count_' = fetch_add(published_count_)
  /\ hIt' = [hIt EXCEPT ![t] = @ + 1]
  /\ hPc' = [hPc EXCEPT ![t] = "category"]
  /\ UNCHANGED <<notHandler, registryVars, schema_validation_, camera_schema_,
                 received_count_, rejected_count_, validated_categories_, hState,
                 subscribeCalls, unsubscribeCalls, publishCalls, hMsg, hRejected,
                 hPublished, hCalls, hDone, hSent, busLog>>

\* lines 152, 169, 194, 230: handleCameraMessage returns
HandleReturn(t) ==
  /\ hPc[t] = "done"
  /\ hDone' = [count |-> hDone.count + 1,
               rejected |-> hDone.rejected + hRejected[t],
               published |-> hDone.published + hPublished[t]]
  /\ hPc' = [hPc EXCEPT ![t] = "idle"]
  /\ hMsg' = [hMsg EXCEPT ![t] = NoMessage]
  /\ hIt' = [hIt EXCEPT ![t] = 0]
  /\ hRejected' = [hRejected EXCEPT ![t] = 0]
  /\ hPublished' = [hPublished EXCEPT ![t] = 0]
  /\ hSent' = [hSent EXCEPT ![t] = <<>>]
  /\ UNCHANGED <<notHandler, registryVars, schema_validation_, camera_schema_,
                 received_count_, published_count_, rejected_count_,
                 validated_categories_, hState, subscribeCalls, unsubscribeCalls,
                 publishCalls, hCalls, busLog>>

handleCameraMessage(t) ==
  \/ HandleBegin(t)
  \/ HandleRoute(t)
  \/ HandleCategory(t)
  \/ HandlePublish(t)
  \/ HandleCount(t)
  \/ HandleReturn(t)

HandlerNext ==
  \/ LoadScenes
  \/ MessageHandler
  \/ start
  \/ stop
  \/ \E t \in HandlerThreads : handleCameraMessage(t)

\* ------------- message_handler.cpp: the critical section on the category cache
\* what the category loop never touches
notAllowlist ==
  <<trackerVars, mqttVars, registryVars, topicVars, clientVars, configVars, raceVars,
    deliveryVars, transported, healthVars, schema_validation_, camera_schema_, received_count_,
    published_count_, rejected_count_, hState, subscribeCalls, unsubscribeCalls,
    publishCalls, hPc, hMsg, hIt, hRejected, hPublished, hCalls, hDone, hSent, busLog>>

LoopCategories == {"person", "car/1"}

\* an erase that leaves the entry in
keepIt(set, it) == set

\* line 204: validated_categories_.erase(it)
eraseIt(set, it) == set \ {it}

AllowlistInit ==
  /\ categories_mutex_ = {}
  /\ alPc = [t \in HandlerThreads |-> "idle"]
  /\ alCat = [t \in HandlerThreads |-> ""]
  /\ alNew = [t \in HandlerThreads |-> FALSE]
  /\ alVisits = 0

\* line 198: the loop reaches a category of the message
categoryNext(t) ==
  /\ alPc[t] = "idle"
  /\ alVisits < MaxVisits
  /\ alVisits' = alVisits + 1
  /\ \E c \in LoopCategories : alCat' = [alCat EXCEPT ![t] = c]
  /\ alPc' = [alPc EXCEPT ![t] = "lock"]
  /\ UNCHANGED <<notAllowlist, validated_categories_, categories_mutex_, alNew>>

\* line 202
categoryLock(t) ==
  /\ alPc[t] = "lock"
  /\ lock_guard(categories_mutex_)
  /\ categories_mutex_' = categories_mutex_ \cup {t}
  /\ alPc' = [alPc EXCEPT ![t] = "insert"]
  /\ UNCHANGED <<notAllowlist, validated_categories_, alCat, alNew, alVisits>>

\* line 203
categoryInsert(t) ==
  /\ alPc[t] = "insert"
  /\ alNew' = [alNew EXCEPT ![t] = alCat[t] \notin validated_categories_]
  /\ validated_categories_' = validated_categories_ \cup {alCat[t]}
  /\ alPc' = [alPc EXCEPT ![t] = "test"]
  /\ UNCHANGED <<notAllowlist, categories_mutex_, alCat, alVisits>>

\* line 204: if (is_new && !isValidTopicSegment(category))
categoryTest(t) ==
  /\ alPc[t] = "test"
  /\ alPc' = [alPc EXCEPT ![t] =
               IF alNew[t] /\ ~isValidTopicSegment(codes[alCat[t]]) THEN "erase" ELSE "unlock"]
  /\ UNCHANGED <<notAllowlist, validated_categories_, categories_mutex_, alCat, alNew, alVisits>>

\* line 205
categoryErase(t) ==
  /\ alPc[t] = "erase"
  /\ validated_categories_' = eraseIt(validated_categories_, alCat[t])
  /\ alPc' = [alPc EXCEPT ![t] = "continue"]
  /\ UNCHANGED <<notAllowlist, categories_mutex_, alCat, alNew, alVisits>>

\* lines 213-215: the lock_guard goes out of scope, by continue or at the brace
categoryUnlock(t) ==
  /\ alPc[t] \in {"continue", "unlock"}
  /\ categories_mutex_' = categories_mutex_ \ {t}
  /\ alPc' = [alPc EXCEPT ![t] = IF alPc[t] = "continue" THEN "idle" ELSE "build"]
  /\ UNCHANGED <<notAllowlist, validated_categories_, alCat, alNew, alVisits>>

\* line 217: buildDummySceneMessage serialises the scene message
categoryBuild(t) ==
  /\ alPc[t] = "build"
  /\ alPc' = [alPc EXCEPT ![t] = "publish"]
  /\ UNCHANGED <<notAllowlist, validated_categories_, categories_mutex_, alCat, alNew, alVisits>>

\* lines 220-223: publish and published_count_++, then the next category
categoryPublish(t) ==
  /\ alPc[t] = "publish"
  /\ alPc' = [alPc EXCEPT ![t] = "idle"]
  /\ UNCHANGED <<notAllowlist, validated_categories_, categories_mutex_, alCat, alNew, alVisits>>

AllowlistNext ==
  \E t \in HandlerThreads :
    \/ categoryNext(t)
    \/ categoryLock(t)
    \/ categoryInsert(t)
    \/ categoryTest(t)
    \/ categoryErase(t)
    \/ categoryUnlock(t)
    \/ categoryBuild(t)
    \/ categoryPublish(t)

\* ------------------------------------------------- healthcheck_server.cpp
\* what the healthcheck server never touches
notHealth ==
  <<trackerVars, mqttVars, registryVars, topicVars, handlerVars, clientVars, configVars,
    raceVars, deliveryVars, transported, allowlistVars>>

\* std::thread::join returns once the thread function has returned
join(position) == position = "exited"

HealthInit ==
  /\ thread_ = "none"
  /\ server_ = "nullptr"
  /\ shutdown_requested_ = FALSE
  /\ srvPc = "none"
  /\ stopping = FALSE
  /\ appPc = "idle"
  /\ starts = 0

\* lines 65-72: start(); a joinable thread_ means "already running"
healthStart ==
  /\ appPc = "idle"
  /\ starts < MaxStarts
  /\ starts' = starts + 1
  /\ IF thread_ = "joinable"
     THEN UNCHANGED <<thread_, shutdown_requested_, srvPc, stopping>>
     ELSE /\ shutdown_requested_' = FALSE
          /\ thread_' = "joinable"
          /\ srvPc' = "store"
          /\ stopping' = FALSE
  /\ UNCHANGED <<notHealth, server_, appPc>>

\* line 75: stop() is called, at any time after a start()
healthStop ==
  /\ appPc = "idle"
  /\ starts > 0
  /\ shutdown_requested_' = TRUE
  /\ appPc' = "test"
  /\ UNCHANGED <<notHealth, thread_, server_, srvPc, stopping, starts>>

\* line 76: if (server_)
healthStopTest ==
  /\ appPc = "test"
  /\ appPc' = IF server_ # "nullptr" THEN "stop" ELSE "join"
  /\ UNCHANGED <<notHealth, thread_, server_, shutdown_requested_, srvPc, stopping, starts>>

\* line 77: server_->stop(). The pointer was read at line 76: when the thread
\* has returned since, the httplib::Server is destroyed and the call is
\* undefined: it returns or the process ends.
healthStopServer ==
  /\ appPc = "stop"
  /\ IF srvPc = "exited"
     THEN /\ appPc' \in {"join", "crashed"}
          /\ stopping' = stopping
     ELSE /\ appPc' = "join"
          /\ stopping' = TRUE
  /\ UNCHANGED <<notHealth, thread_, server_, shutdown_requested_, srvPc, starts>>

\* lines 79-81: if (thread_.joinable()) thread_.join()
healthStopJoin ==
  /\ appPc = "join"
  /\ thread_ = "joinable" => join(srvPc)
  /\ thread_' = "none"
  /\ appPc' = "idle"
  /\ UNCHANGED <<notHealth, server_, shutdown_requested_, srvPc, stopping, starts>>

\* lines 88-92: the thread constructs the httplib::Server and stores its address
serverStore ==
  /\ srvPc = "store"
  /\ server_' = "server"
  /\ srvPc' = "listen"
  /\ UNCHANGED <<notHealth, thread_, shutdown_requested_, stopping, appPc, starts>>

\* line 114: listen() returns false when it cannot bind the port
serverListenFails ==
  /\ srvPc = "listen"
  /\ srvPc' = "clear"
  /\ UNCHANGED <<notHealth, thread_, server_, shutdown_requested_, stopping, appPc, starts>>

\* line 114: listen() returns when the server was told to stop; a stop() that
\* came before listen() was entered counts as well
serverListenStopped ==
  /\ srvPc = "listen"
  /\ stopping
  /\ srvPc' = "clear"
  /\ UNCHANGED <<notHealth, thread_, server_, shutdown_requested_, stopping, appPc, starts>>

\* lines 121-125: server_ = nullptr, and the thread function returns
serverClear ==
  /\ srvPc = "clear"
  /\ server_' = "nullptr"
  /\ srvPc' = "exited"
  /\ UNCHANGED <<notHealth, thread_, shutdown_requested_, stopping, appPc, starts>>

HealthNext ==
  \/ healthStart
  \/ healthStop
  \/ healthStopTest
  \/ healthStopServer
  \/ healthStopJoin
  \/ serverStore
  \/ serverListenFails
  \/ serverListenStopped
  \/ serverClear

\* ---------------------------------------------- config_loader.cpp, env_vars.hpp
\* env_vars.hpp lines 16, 19
LOG_LEVEL == "TRACKER_LOG_LEVEL"

HEALTHCHECK_PORT == "TRACKER_HEALTHCHECK_PORT"

\* a string held by an environment variable, a file value that is present
Value(v) == [value |-> v]

\* "", "9001", "1000", "x", "9001x"
PortStrings ==
  {<<>>, <<57, 48, 48, 49>>, <<49, 48, 48, 48>>, <<120>>, <<57, 48, 48, 49, 120>>}

LevelStrings == {"", "warn", "warning", "loud"}

Environments ==
  {(LOG_LEVEL :> level) @@ (HEALTHCHECK_PORT :> port) :
     level \in {nullptr} \cup {Value(v) : v \in LevelStrings},
     port \in {nullptr} \cup {Value(v) : v \in PortStrings}}

\* config files that pass the schema: each key present or left out
ConfigFiles ==
  {[log_level |-> level, healthcheck_port |-> port] :
     level \in {nullptr, Value("debug")}, port \in {nullptr, Value(9000)}}

\* what load_config returns, and the std::runtime_error it throws
ServiceConfig(level, port) == [error |-> "none", log_level |-> level, healthcheck_port |-> port]

runtime_error(what) == [error |-> what, log_level |-> "", healthcheck_port |-> 0]

\* lines 63-69: the value whenever getenv() returns a pointer
get_env(name) == IF env[name] # nullptr THEN env[name] ELSE nullopt

\* lines 75-82
parse_log_level(level) ==
  IF level \in {"trace", "debug", "info", "warn", "error"}
  THEN Value(level)
  ELSE runtime_error("Invalid log level")

isdigit(c) == c \in 48..57

\* std::stoi: the decimal digits the string starts with
RECURSIVE digits(_)
digits(chars) ==
  IF chars = <<>> \/ ~isdigit(Head(chars)) THEN <<>>
  ELSE <<Head(chars)>> \o digits(Tail(chars))

RECURSIVE decimal(_)
decimal(ds) ==
  IF ds = <<>> THEN 0
  ELSE 10 * decimal(SubSeq(ds, 1, Len(ds) - 1)) + (ds[Len(ds)] - 48)

stoi(chars) ==
  IF digits(chars) = <<>> THEN [thrown |-> "invalid_argument"]
  ELSE IF decimal(digits(chars)) > 2147483647 THEN [thrown |-> "out_of_range"]
  ELSE Value(decimal(digits(chars)))

\* lines 88-101
parse_port(port_str) ==
  LET port == stoi(port_str)
  IN IF port = [thrown |-> "invalid_argument"] THEN runtime_error("Invalid port")
     ELSE IF port = [thrown |-> "out_of_range"] THEN runtime_error("port out of range")
     ELSE IF port.value < 1024 \/ port.value > 65535 THEN runtime_error("port out of range")
     ELSE port

\* GetValueByPointerWithDefault
withDefault(found, default) == IF found = nullptr THEN default ELSE found.value

ConfigInit ==
  /\ env = (LOG_LEVEL :> nullptr) @@ (HEALTHCHECK_PORT :> nullptr)
  /\ configFile = [log_level |-> nullptr, healthcheck_port |-> nullptr]
  /\ config = runtime_error("not loaded")
  /\ cfgPc = "init"

\* the environment and the config file the process is started with
ConfigSetup ==
  /\ cfgPc = "init"
  /\ env' \in Environments
  /\ configFile' \in ConfigFiles
  /\ cfgPc' = "ready"
  /\ UNCHANGED <<notConfig, config>>

\* lines 105-143, for a config file that parses and passes the schema
load_config ==
  /\ cfgPc = "ready"
  /\ LET env_log_level == get_env(LOG_LEVEL)
         env_port == get_env(HEALTHCHECK_PORT)
         log_level ==
           IF env_log_level # nullopt THEN parse_log_level(env_log_level.value)
           ELSE Value(withDefault(configFile.log_level, "info"))
         healthcheck_port ==
           IF env_port # nullopt THEN parse_port(env_port.value)
           ELSE Value(withDefault(configFile.healthcheck_port, 8080))
     IN config' =
          IF "error" \in DOMAIN log_level THEN log_level
          ELSE IF "error" \in DOMAIN healthcheck_port THEN healthcheck_port
          ELSE ServiceConfig(log_level.value, healthcheck_port.value)
  /\ cfgPc' = "loaded"
  /\ UNCHANGED <<notConfig, env, configFile>>

ConfigNext ==
  \/ ConfigSetup
  \/ load_config

Init ==
  /\ TrackerInit
  /\ MqttInit
  /\ RegistryInit
  /\ TopicInit
  /\ HandlerInit
  /\ ClientInit
  /\ ConfigInit
  /\ RaceInit
  /\ DeliveryInit
  /\ transported = 0
  /\ AllowlistInit
  /\ HealthInit

Next ==
  \/ SingleEmpty
  \/ SingleBegin
  \/ SingleTierA
  \/ SingleTierB
  \/ SingleTierC
  \/ SingleTierD
  \/ SingleCorrect
  \/ SingleCreate
  \/ MultiEmpty
  \/ MultiBegin
  \/ MultiMatch
  \/ MultiAssign
  \/ MultiCorrect
  \/ MultiCreateCamera
  \/ MultiFinish
  \/ TrackReturn

Spec == Init /\ [][Next]_vars

\* timestamps that repeat and go back, with one object seen by one camera
ClockSteps == {-1, 0, 1}

ClockSingleInputs ==
  {objs \in SingleInputs :
     Len(objs) = 1 /\ \A k \in 1..Len(objs) : divider(objs[k]) /\ objs[k].pos = 0}

ClockMultiInputs ==
  {cams \in MultiInputs : Len(cams) = 1 /\ cams[1] \in ClockSingleInputs}

ClockSingleEmpty == SingleEmptyWith(ClockSteps)

ClockSingleBegin == SingleBeginWith(ClockSingleInputs, ClockSteps)

ClockMultiEmpty == MultiEmptyWith(ClockSteps)

ClockMultiBegin == MultiBeginWith(ClockMultiInputs, ClockSteps)

ClockNext ==
  \/ ClockSingleEmpty
  \/ ClockSingleBegin
  \/ SingleTierA
  \/ SingleTierB
  \/ SingleTierC
  \/ SingleTierD
  \/ SingleCorrect
  \/ SingleCreate
  \/ ClockMultiEmpty
  \/ ClockMultiBegin
  \/ MultiMatch
  \/ MultiAssign
  \/ MultiCorrect
  \/ MultiCreateCamera
  \/ MultiFinish
  \/ TrackReturn

ClockSpec == Init /\ [][ClockNext]_vars

MqttSpec == Init /\ [][MqttNext]_vars

\* every thread that can take a step takes one, and the drain loop keeps polling;
\* a callback's body may block for ever and the transport need not deliver
MqttFairness ==
  /\ WF_vars(CbGuardLoad)
  /\ WF_vars(CbGuardIncrement)
  /\ WF_vars(CbCheckSkip)
  /\ WF_vars(CbGuardDestroy)
  /\ SF_vars(DisconnectDrain)
  /\ WF_vars(DisconnectDisable)
  /\ WF_vars(DisconnectTeardown)

MqttLiveSpec == Init /\ [][MqttNext]_vars /\ MqttFairness

ClientSpec == Init /\ [][ClientNext]_vars

ConfigSpec == Init /\ [][ConfigNext]_vars

SubscribeRaceSpec == Init /\ [][RaceNext]_vars

DeliverySpec == Init /\ [][DeliveryNext]_vars

RegistryNext == register_scenes

RegistrySpec == Init /\ [][RegistryNext]_vars

TopicSpec == Init /\ [][TopicNext]_vars

HandlerSpec == Init /\ [][HandlerNext]_vars

\* the handler on one transport thread, with the connection coming and going
BridgeNext ==
  \/ LoadScenes
  \/ MessageHandler
  \/ start
  \/ \E t \in HandlerThreads : t = 1 /\ handleCameraMessage(t)
  \/ on_connected
  \/ connection_lost

BridgeSpec == Init /\ [][BridgeNext]_vars

AllowlistSpec == Init /\ [][AllowlistNext]_vars

HealthSpec == Init /\ [][HealthNext]_vars

\* both threads keep running; whether the port can be bound is up to the system,
\* and the application need not call start() or stop()
HealthFairness ==
  /\ WF_vars(healthStopTest)
  /\ WF_vars(healthStopServer)
  /\ WF_vars(healthStopJoin)
  /\ WF_vars(serverStore)
  /\ WF_vars(serverListenStopped)
  /\ WF_vars(serverClear)

HealthLiveSpec == Init /\ [][HealthNext]_vars /\ HealthFairness

\* ------------------------------------------------------------ properties
IsHighScore(d) == d.score >= scoreThreshold

InputDets == Range(Flatten(input))

SetEventsAt(tiers) ==
  {k \in 1..Len(log) : log[k].op = "setMeasurement" /\ log[k].tier \in tiers}

Cascade == {"a", "b", "c", "d"}

CreateEvents == {k \in 1..Len(log) : log[k].op = "createTrack"}

\* detections some cascade step set as a measurement
AssignedDets == {log[k].det : k \in SetEventsAt(Cascade)}

OfferedAt(tier) ==
  UNION {Range(offered[k].dets) : k \in {j \in 1..Len(offered) : offered[j].tier = tier}}

TierRan(tier) == \E k \in 1..Len(offered) : offered[k].tier = tier

TickDone == pc = "done"

\* C1: once some disconnect() has left its drain wait, no callback body runs.
C1_NoBodyAfterDrain ==
  (\E d \in Callers : discPc[d] \in {"disable", "teardown", "done"})
    => \A t \in CbThreads : cbPc[t] # "body"

\* C2: within a tick, no track gets two setMeasurement calls without a correct
\* between them.
C2_NoOverwrite ==
  \A i, j \in 1..Len(log) :
    (/\ i < j
     /\ log[i].op = "setMeasurement"
     /\ log[j].op = "setMeasurement"
     /\ log[i].id = log[j].id)
      => \E k \in (i + 1)..(j - 1) : log[k].op = "correct"

\* C3: in a multi-camera tick, between the tiers and up to correct, a track that
\* several cameras matched in one tier holds the detection of the first of them,
\* and every detection that is not some track's measurement is still in its
\* camera's pool.
C3_FirstCameraWins ==
  (variant = "multi" /\ pc \in {"m_b", "m_c", "m_d", "m_correct"} /\ matched = {})
    => /\ \A k \in SetEventsAt(Cascade) :
            \A t \in 1..Len(mTracks) :
              mTracks[t].id = log[k].id
                => \A j \in SetEventsAt({log[k].tier}) :
                     log[j].id = log[k].id => mTracks[t].pending.cam <= log[j].det.cam
       /\ \A d \in InputDets :
            \/ d \in Range(Flatten(objectsPerCamera))
            \/ d \in Range(Flatten(lowScoreObjectsPerCamera))
            \/ \E t \in 1..Len(mTracks) : mTracks[t].pending = d

\* C4: from correct() until the next predict(), no track holds a pending
\* measurement.
C4_NoPendingAfterCorrect ==
  pc \in {"idle", "done", "s_create", "m_create"}
    => \A t \in 1..Len(mTracks) : mTracks[t].pending = NoDet

\* C5: every track created in a tick comes from a detection whose score is at
\* least the threshold; a first tick with low-score detections only leaves no track.
C5_NoLowScoreBirth ==
  /\ \A k \in CreateEvents : IsHighScore(log[k].det)
  /\ (TickDone /\ ticks = 1 /\ \A d \in InputDets : ~IsHighScore(d)) => mTracks = <<>>

C5_Witness ==
  /\ TickDone /\ ticks = 1 /\ variant = "multi"
  /\ InputDets # {}
  /\ \A d \in InputDets : ~IsHighScore(d)
  /\ mTracks = <<>>

\* C6: the same high-score detection fed on consecutive ticks, from no tracks,
\* creates one track on the first tick, is associated with it on every later tick,
\* and that track is Reliable once N_reliable ticks have been fed.
C6_Continuity ==
  (TickDone /\ continuity \in Positions)
    => /\ Len(mTracks) = 1
       /\ mCurrentId = 2
       /\ mTracks[1].id = 1
       /\ mTracks[1].hits = ticks
       /\ mTracks[1].pos = continuity
       /\ ticks = 1 => Cardinality(CreateEvents) = 1
       /\ ticks > 1 => /\ CreateEvents = {}
                       /\ \E k \in SetEventsAt(Cascade) : log[k].id = 1
       /\ ticks >= N_reliable => mTracks[1].status = "Reliable"

C6_Witness ==
  /\ TickDone /\ continuity \in Positions /\ ticks = 3
  /\ mTracks[1].status = "Reliable"
  /\ \E k \in SetEventsAt({"a"}) : log[k].id = 1

\* the high-score detections the cascade left unassigned
LeftForBirth == {d \in InputDets : IsHighScore(d) /\ d \notin AssignedDets}

\* C7: the multi-camera new-track pass visits the cameras from last to first; a
\* detection left over by the cascade creates a track unless it is matched to a
\* track created earlier in the pass; two cameras seeing one new object give one
\* new track.
C7_ReversePassDedup ==
  (TickDone /\ variant = "multi")
    => /\ \A i, j \in CreateEvents : i < j => log[i].det.cam >= log[j].det.cam
       /\ \A d \in LeftForBirth :
            LET born == {k \in CreateEvents : log[k].det = d}
                dup == {k \in SetEventsAt({"new"}) : log[k].det = d}
            IN /\ Cardinality(born) + Cardinality(dup) = 1
               /\ \A k \in dup : \E c \in CreateEvents : c < k /\ log[c].id = log[k].id
       /\ \A k \in CreateEvents : log[k].det \in LeftForBirth
       /\ (/\ Len(input) = 2
           /\ Len(input[1]) = 1 /\ Len(input[2]) = 1
           /\ input[1][1].pos = input[2][1].pos
           /\ IsHighScore(input[1][1]) /\ IsHighScore(input[2][1])
           /\ AssignedDets = {})
            => Cardinality(CreateEvents) = 1

C7_Witness ==
  /\ TickDone /\ variant = "multi"
  /\ Len(input) = 2
  /\ Len(input[1]) = 1 /\ Len(input[2]) = 1
  /\ input[1][1].pos = input[2][1].pos
  /\ IsHighScore(input[1][1]) /\ IsHighScore(input[2][1])
  /\ AssignedDets = {}
  /\ Cardinality(CreateEvents) = 1
  /\ \E k \in CreateEvents : log[k].det.cam = 2
  /\ \E k \in SetEventsAt({"new"}) : log[k].det.cam = 1

\* C8: a single-camera tick creates exactly one track, stamped with the tick's
\* timestamp, for each high-score detection the cascade assigned to no track.
C8_SingleBirths ==
  (TickDone /\ variant = "single")
    => /\ {log[k].det : k \in CreateEvents} = LeftForBirth
       /\ Cardinality(CreateEvents) = Cardinality(LeftForBirth)
       /\ \A k \in CreateEvents :
            /\ log[k].arg = timestamp
            /\ \E t \in 1..Len(mTracks) :
                 /\ mTracks[t].id = log[k].id
                 /\ mTracks[t].created = timestamp
                 /\ mTracks[t].pos = log[k].det.pos
                 /\ mTracks[t].status = "Tentative"
            /\ \A j \in CreateEvents : log[j].id = log[k].id => j = k
       /\ (ticks = 1 /\ Len(input[1]) = 1 /\ IsHighScore(input[1][1])) => Len(mTracks) = 1

C8_Witness ==
  /\ TickDone /\ variant = "single"
  /\ Cardinality(CreateEvents) = 1
  /\ AssignedDets # {}
  /\ Cardinality({d \in InputDets : IsHighScore(d)}) = 2

\* the low-score detections the two reliable steps left unassigned
RemainingLow == {d \in InputDets : ~IsHighScore(d) /\ d \notin AssignedDets}

AfterTierC == pc \in {"s_d", "s_correct", "m_d", "m_correct"} /\ TierRan("c")

AfterTierD == pc \in {"s_correct", "m_correct"} /\ TierRan("d")

\* C9 as stated: step c offers the unreliable tracks the merged pool of the
\* high-score and the low-score detections left by the reliable steps.
C9_MergedPool ==
  AfterTierC
    => OfferedAt("c") =
         {d \in InputDets : d \notin {log[k].det : k \in SetEventsAt({"a", "b"})}}

\* C9 as amended: step c offers the unreliable tracks the high-score detections
\* step a left unassigned and no low-score one; step d offers the suspended
\* tracks what step c left of them.
C9_HighScorePoolOnly ==
  /\ AfterTierC
       => OfferedAt("c") =
            {d \in InputDets :
               IsHighScore(d) /\ d \notin {log[k].det : k \in SetEventsAt({"a"})}}
  /\ AfterTierD
       => OfferedAt("d") =
            {d \in InputDets :
               IsHighScore(d) /\ d \notin {log[k].det : k \in SetEventsAt({"a", "c"})}}

C9_Witness ==
  /\ pc = "s_correct"
  /\ OfferedAt("c") # {}
  /\ \E t \in 1..Len(mTracks) :
       /\ mTracks[t].status = "Unreliable"
       /\ mTracks[t].pending = NoDet
       /\ \E d \in RemainingLow : d.pos = mTracks[t].pos

\* C10: a tick without detections makes one predict call, then one correct call,
\* no other call on the manager, and leaves mLastTimestamp at its timestamp.
C10_EmptyTick ==
  (TickDone /\ InputDets = {})
    => /\ Len(log) = 2
       /\ log[1].op \in {"predict", "predictAt"}
       /\ log[2].op = "correct"
       /\ mLastTimestamp = timestamp

C10_Witness ==
  /\ TickDone /\ InputDets = {}
  /\ variant = "multi"
  /\ Len(input) = 2
  /\ mTracks # <<>>
  /\ log[1].op = "predict"

\* ------------------------------------------------ batched matching (C11)
InTier == pc \in {"m_a", "m_b", "m_c", "m_d"}

\* the slots the matching workers have filled hold what match() returns for
\* their camera, the others are still empty
SlotsFollowMatch ==
  \A i \in 1..Len(tierObjects) :
    IF i \in matched
    THEN /\ assignments[i] = match(tracks, tierObjects[i]).assignments
         /\ unassignedObjectsPerCamera[i] = match(tracks, tierObjects[i]).unassignedObjects
    ELSE assignments[i] = <<>> /\ unassignedObjectsPerCamera[i] = <<>>

\* a step of one matching worker
WorkerStep == InTier /\ matched' # matched /\ matched' # {}

\* what a worker step may change: one more camera is matched, and only that
\* camera's two slots are written
WorkerStepEffect ==
  \E i \in (1..Len(tierObjects)) \ matched :
    /\ matched' = matched \cup {i}
    /\ \A j \in (1..Len(tierObjects)) \ {i} :
         /\ assignments'[j] = assignments[j]
         /\ unassignedObjectsPerCamera'[j] = unassignedObjectsPerCamera[j]
    /\ mTracks' = mTracks
    /\ mCurrentId' = mCurrentId
    /\ log' = log
    /\ tracks' = tracks
    /\ objectsPerCamera' = objectsPerCamera
    /\ lowScoreObjectsPerCamera' = lowScoreObjectsPerCamera

\* a step that issues setMeasurement calls of a cascade tier
MergeStep ==
  /\ InTier
  /\ Len(log') > Len(log)

\* the merge starts when every worker is done, and issues exactly the calls the
\* cameras' assignments name, camera by camera in ascending index order
MergeStepEffect ==
  /\ matched = 1..Len(tierObjects)
  /\ SubSeq(log', 1, Len(log)) = log
  /\ LET calls == SubSeq(log', Len(log) + 1, Len(log'))
     IN /\ \A k \in 1..Len(calls) :
             /\ calls[k].op = "setMeasurement"
             /\ calls[k].tier = tierOf(pc)
             /\ \E a \in Range(assignments[calls[k].det.cam]) :
                  /\ tracks[a[1]].id = calls[k].id
                  /\ tierObjects[calls[k].det.cam][a[2]] = calls[k].det
        /\ \A k, j \in 1..Len(calls) : k < j => calls[k].det.cam <= calls[j].det.cam
        /\ Len(calls) = Len(Flatten(assignments))

\* after the merge a track holds the detection of the last camera that matched it
LastCameraHeld ==
  (variant = "multi" /\ pc \in {"m_b", "m_c", "m_d", "m_correct"} /\ matched = {})
    => \A k \in SetEventsAt(Cascade) :
         \A t \in 1..Len(mTracks) :
           mTracks[t].id = log[k].id => mTracks[t].pending.cam >= log[k].det.cam

\* C11: in a multi-camera tier the matching workers leave the TrackManager alone
\* and write only their own camera's slots; the setMeasurement calls of the tier
\* are issued after every worker has finished, in ascending camera order, so the
\* outcome is a function of the tier's inputs and not of the workers' schedule.
C11_ParallelMatchSequentialMerge ==
  /\ [](InTier => SlotsFollowMatch)
  /\ []LastCameraHeld
  /\ [][(WorkerStep => WorkerStepEffect) /\ (MergeStep => MergeStepEffect)]_vars

C11_Witness ==
  /\ pc = "m_b"
  /\ Cardinality(SetEventsAt({"a"})) = 2
  /\ \E k, j \in SetEventsAt({"a"}) :
       /\ k < j
       /\ log[k].id = log[j].id
       /\ log[k].det.cam = 1
       /\ log[j].det.cam = 2
       /\ \E t \in 1..Len(mTracks) : mTracks[t].pending = log[j].det

\* ------------------------------------------------ scene registry (C12-C15)
\* the positions (scene, camera) of the last argument, in iteration order
Occurrences ==
  {o \in (1..MaxScenes) \X (1..MaxSceneCams) :
     o[1] <= Len(regArg) /\ o[2] <= Len(regArg[o[1]].cameras)}

UidAt(o) == regArg[o[1]].cameras[o[2]].uid

Before(o, q) == o[1] < q[1] \/ (o[1] = q[1] /\ o[2] < q[2])

HasDuplicate == \E o, q \in Occurrences : o # q /\ UidAt(o) = UidAt(q)

Threw == regCalls > 0 /\ regError # NoError

Returned == regCalls > 0 /\ regError = NoError

LookupIds == CameraUids \cup {"cam-9", ""}

\* C12: register_scenes throws exactly when some camera uid occurs twice in its
\* argument, in one scene or in two; the error names that uid, the scene of its
\* first occurrence as scene1 and the scene of its repeat as scene2.
C12_DuplicateCameraError ==
  regCalls > 0
    => /\ HasDuplicate <=> regError # NoError
       /\ regError # NoError
            => \E o, q \in Occurrences :
                 /\ Before(o, q)
                 /\ UidAt(o) = regError.camera_id
                 /\ UidAt(q) = regError.camera_id
                 /\ \A r \in Occurrences :
                      (UidAt(r) = regError.camera_id /\ r # o /\ r # q) => Before(q, r)
                 /\ regError.scene1 = regArg[o[1]].name
                 /\ regError.scene2 = regArg[q[1]].name

C12_Witness ==
  /\ Threw
  /\ regError.camera_id = "cam-1"
  /\ regError.scene1 = "Lobby"
  /\ regError.scene2 = "Yard"

C12_WitnessSameScene ==
  /\ Threw
  /\ Len(regArg) = 1
  /\ regError.scene1 = regError.scene2

\* C13: a register_scenes call that throws leaves the registry as the call found
\* it: the scenes, the counts and every lookup are what they were before.
C13_UnchangedOnFailure ==
  Threw
    => /\ get_all_scenes = regBefore[1]
       /\ scene_count = Len(regBefore[1])
       /\ camera_count = Cardinality(DOMAIN regBefore[2])
       /\ \A id \in LookupIds :
            /\ find_scene_for_camera(id) =
                 IF id \in DOMAIN regBefore[2] THEN regBefore[1][regBefore[2][id]]
                 ELSE nullptr
            /\ find_camera(id) =
                 IF id \in DOMAIN regBefore[2]
                 THEN regBefore[1][regBefore[2][id]].cameras[regBefore[3][id]]
                 ELSE nullptr

\* C14: a register_scenes call that throws leaves the registry empty.
C14_EmptyOnFailure ==
  Threw
    => /\ empty
       /\ scene_count = 0
       /\ camera_count = 0
       /\ \A id \in LookupIds :
            find_scene_for_camera(id) = nullptr /\ find_camera(id) = nullptr

\* C15: after a register_scenes call that returns, the registry holds its
\* argument and nothing else: the counts are those of the argument, every camera
\* of the argument is found with its scene, and every other id is not found.
C15_ReflectsArgument ==
  Returned
    => /\ scene_count = Len(regArg)
       /\ camera_count = Cardinality(Occurrences)
       /\ get_all_scenes = regArg
       /\ \A o \in Occurrences :
            /\ find_scene_for_camera(UidAt(o)) = regArg[o[1]]
            /\ find_camera(UidAt(o)) = regArg[o[1]].cameras[o[2]]
       /\ \A id \in LookupIds \ {UidAt(o) : o \in Occurrences} :
            find_scene_for_camera(id) = nullptr /\ find_camera(id) = nullptr

\* a re-registration that drops a camera and moves another to a second scene
C15_Witness ==
  /\ Returned
  /\ regCalls = 2
  /\ Len(regArg) = 2
  /\ DOMAIN regBefore[2] = {"cam-1", "cam+2"}
  /\ DOMAIN camera_to_scene_ = {"cam+2"}
  /\ camera_to_scene_["cam+2"] = 2
  /\ regBefore[2]["cam+2"] = 1

\* ------------------------------------------------- topic segments (C16)
Letters == {65, 90, 97, 122}

Digits == {48, 57}

\* '/', '+', '#', '$', NUL, whitespace, control characters
Reserved == {47, 43, 35, 36, 0, 9, 10, 32, 127}

\* C16: isValidTopicSegment accepts exactly the non-empty strings made of ASCII
\* letters, digits, '-', '_' and '.'; it rejects the empty string and every
\* string holding '/', '+', '#', '$', NUL, whitespace or a control character.
C16_SegmentPredicate ==
  segChecked
    => /\ segValid = (/\ Len(segment) > 0
                      /\ Range(segment) \subseteq Letters \cup Digits \cup {45, 95, 46})
       /\ segment = <<>> => segValid = FALSE
       /\ Range(segment) \cap Reserved # {} => segValid = FALSE

C16_Witness ==
  /\ segChecked /\ segValid
  /\ Len(segment) = 2
  /\ segment[1] \in Letters
  /\ segment[2] = 46

C16_WitnessRejected ==
  /\ segChecked /\ ~segValid
  /\ Len(segment) = 2
  /\ segment[1] \in Letters
  /\ segment[2] = 47

\* ------------------------------------------------ message handler (C17-C20)
TopicsUsed == subscribeCalls \cup unsubscribeCalls \cup publishCalls

\* C17: every topic handed to subscribe, unsubscribe or publish is made of
\* segments that satisfy the topic-segment predicate.
C17_TopicsFromValidSegments ==
  \A topic \in TopicsUsed :
    \A k \in 1..Len(topic) : isValidTopicSegment(codes[topic[k]])

InFlight == {t \in HandlerThreads : hPc[t] # "idle"}

\* C18: received counts every invocation of handleCameraMessage once, from its
\* first statement on, whether the message is then rejected, accepted without a
\* publish or published once per category.
C18_ReceivedOncePerInvocation == received_count_ = hCalls

C18_Witness ==
  /\ received_count_ = 3
  /\ hDone.count = 2
  /\ hDone.rejected = 1
  /\ hDone.published = 0
  /\ \E t \in HandlerThreads : hPc[t] = "done" /\ hPublished[t] = 2

\* the messages C19 lists, read off the message and the registry
Malformed(msg) ==
  \/ msg[1].head # TOPIC_CAMERA_PREFIX
  \/ msg[1].rest = ""
  \/ ~msg[2].json
  \/ (schema_validation_ /\ camera_schema_ /\ ~msg[2].conforms)
  \/ msg[2].id # "string"
  \/ msg[2].timestamp # "string"
  \/ msg[2].objects # "object"
  \/ msg[1].rest \notin DOMAIN camera_to_scene_

\* C19: an invocation for a message with a wrong or bare topic, an unparsable or
\* schema-violating payload, a missing or mistyped id, timestamp or objects
\* field, or an unregistered camera returns having incremented rejected once
\* and published nothing.
C19_RejectedOnce ==
  \A t \in HandlerThreads :
    (hPc[t] # "idle" /\ Malformed(hMsg[t]))
      => /\ hPublished[t] = 0
         /\ hPc[t] \in {"route", "done"}
         /\ hPc[t] = "done" => hRejected[t] = 1

C19_Witness ==
  \E t \in HandlerThreads :
    /\ hPc[t] = "done"
    /\ hRejected[t] = 1
    /\ hMsg[t][1] = Topic("scenescape/data/sensor/", "cam-1")
    /\ "cam-1" \in DOMAIN camera_to_scene_

RECURSIVE Sum(_, _)
Sum(f, S) == IF S = {} THEN 0
             ELSE LET x == CHOOSE y \in S : TRUE IN f[x] + Sum(f, S \ {x})

\* publishes whose published_count_++ is still to come
Uncounted == Cardinality({t \in HandlerThreads : hPc[t] = "count"})

CountersExact ==
  /\ received_count_ = hDone.count + Cardinality(InFlight)
  /\ rejected_count_ = hDone.rejected + Sum(hRejected, HandlerThreads)
  /\ published_count_ = hDone.published + Sum(hPublished, HandlerThreads) - Uncounted
  /\ rejected_count_ <= received_count_

CountersGrow ==
  /\ received_count_' >= received_count_
  /\ published_count_' >= published_count_
  /\ rejected_count_' >= rejected_count_

\* C20: under every interleaving of concurrent invocations the three counters
\* never decrease, every increment is kept (with no invocation in flight,
\* received is the number of invocations made), and rejected <= received.
C20_CountersUnderConcurrency == []CountersExact /\ [][CountersGrow]_vars

C20_Witness ==
  /\ hPc[1] = "done" /\ hRejected[1] = 1
  /\ hPc[2] = "count"
  /\ hDone.count = 1
  /\ received_count_ = 3

\* ------------------------------------------------ message handler (C21-C22, C28-C29)
\* the invocations that went through the publish loop and are about to return
Accepted == {t \in HandlerThreads : hPc[t] = "done" /\ hRejected[t] = 0}

\* the category keys of the payload's objects map, in the order they are written
CategoryKeys(msg) == [i \in 1..Len(msg[2].members) |-> msg[2].members[i][1]]

ValidKeys(msg) ==
  SelectSeq(CategoryKeys(msg), LAMBDA key : isValidTopicSegment(codes[key]))

SceneUidOf(msg) == find_scene_for_camera(msg[1].rest).uid

\* C21: an invocation that was not rejected has published exactly once to
\* scenescape/data/scene/{scene_uid}/{category} for every category key of the
\* objects map that satisfies the predicate, in the order of the keys, skipping
\* the others, and has counted that many publishes.
C21_OnePublishPerCategoryKey ==
  \A t \in Accepted :
    /\ Len(hSent[t]) = Len(ValidKeys(hMsg[t]))
    /\ hPublished[t] = Len(ValidKeys(hMsg[t]))
    /\ \A i \in 1..Len(hSent[t]) :
         hSent[t][i].topic =
           <<"scenescape", "data", "scene", SceneUidOf(hMsg[t]), ValidKeys(hMsg[t])[i]>>

\* the camera topics of the registered ids that satisfy the predicate
CameraTopics ==
  {<<"scenescape", "data", "camera", id>> :
     id \in {uid \in DOMAIN camera_to_scene_ : isValidTopicSegment(codes[uid])}}

\* the calls of the log that are op, and the topics they name
CallsOf(op) == {i \in 1..Len(busLog) : busLog[i].op = op}

TopicsOf(op) == {busLog[i].arg : i \in CallsOf(op)}

\* what the bus client's pending set holds after the calls of the log: subscribe
\* inserts its topic, unsubscribe erases it
RECURSIVE PendingAfter(_)
PendingAfter(n) ==
  IF n = 0 THEN {}
  ELSE IF busLog[n].op = "subscribe" THEN PendingAfter(n - 1) \cup {busLog[n].arg}
  ELSE IF busLog[n].op = "unsubscribe" THEN PendingAfter(n - 1) \ {busLog[n].arg}
  ELSE PendingAfter(n - 1)

StartCalls == 1 + Cardinality(CameraTopics)

\* C22: start() first installs the callback and then subscribes once to the
\* camera topic of exactly the registered ids that satisfy the predicate (to
\* none for an empty registry); stop() unsubscribes once from exactly those
\* topics and then clears the callback, and after it no subscription of the
\* handler is pending.
C22_StartStopSubscriptions ==
  /\ hState \in {"none", "constructed"} => busLog = <<>>
  /\ hState \in {"started", "stopped"} =>
       /\ Len(busLog) >= StartCalls
       /\ busLog[1] = [op |-> "setMessageCallback", arg |-> <<"handleCameraMessage">>]
       /\ \A i \in 2..StartCalls : busLog[i].op = "subscribe"
       /\ {busLog[i].arg : i \in 2..StartCalls} = CameraTopics
       /\ CallsOf("subscribe") = 2..StartCalls
  /\ hState = "started" => Len(busLog) = StartCalls /\ PendingAfter(Len(busLog)) = CameraTopics
  /\ hState = "stopped" =>
       /\ Len(busLog) = 2 * StartCalls
       /\ \A i \in (StartCalls + 1)..(2 * StartCalls - 1) : busLog[i].op = "unsubscribe"
       /\ TopicsOf("unsubscribe") = CameraTopics
       /\ busLog[Len(busLog)] = [op |-> "setMessageCallback", arg |-> <<"nullptr">>]
       /\ PendingAfter(Len(busLog)) = {}

C22_Witness ==
  /\ hState = "stopped"
  /\ Cardinality(DOMAIN camera_to_scene_) = 2
  /\ Cardinality(CameraTopics) = 2
  /\ Len(busLog) = 6

\* C28: the timestamp of every scene message an invocation publishes is the
\* timestamp string of its inbound message, character for character.
C28_TimestampPreserved ==
  \A t \in HandlerThreads :
    \A i \in 1..Len(hSent[t]) : hSent[t][i].payload.timestamp = hMsg[t][2].stamp

\* C29: with schema validation enabled, an invocation for a payload that
\* violates the camera schema is rejected, and every scene message handed to
\* publish() was validated against the scene schema.
C29_SchemaEnforced ==
  schema_validation_ =>
    \A t \in HandlerThreads :
      /\ (hPc[t] = "done" /\ ~hMsg[t][2].conforms) => hRejected[t] = 1
      /\ \A i \in 1..Len(hSent[t]) : hSent[t][i].payload.validated

\* ------------------------------------------------ bus client (C23-C27)
\* the guards whose constructor has run and whose destructor has not
Alive == {t \in CbThreads : cbPc[t] \in {"guarded", "body", "exit"}}

\* C23: under every interleaving the counter is the number of CallbackGuards
\* alive, the ones constructed with the stop flag set included, hence 0 when
\* every guard has been destroyed.
C23_CounterCountsGuards == callbacks_in_flight = Cardinality(Alive)

C23_Witness ==
  /\ callbacks_in_flight = 2
  /\ stop_requested
  /\ \E t \in CbThreads : cbPc[t] = "guarded" /\ should_skip[t]
  /\ \E t \in CbThreads : cbPc[t] = "body"

\* C24: a disconnect() that has set the stop flag goes on to disable the
\* callbacks and tear the connection down, whatever the callbacks do.
C24_DisconnectCompletes ==
  \A d \in Callers : (discPc[d] = "drain") ~> (discPc[d] = "done")

Handed == {wire[i].arg : i \in {j \in 1..Len(wire) : wire[j].op = "publish"}}

\* C26: a payload passed to publish() while the client was not connected is
\* never handed to the transport, not by that call and not by anything that
\* follows it, a reconnect included.
C26_NotConnectedPublishDropped == Handed \cap unsent = {}

C26_Witness ==
  /\ unsent # {}
  /\ connected
  /\ \E sent \in Handed : \E lost \in unsent : lost < sent

\* the requests the latest operation put on the wire
Requests == {i \in 1..Len(wire) : i > clLast.from}

FromFile(key, default) == IF configFile[key] = nullptr THEN default ELSE configFile[key].value

\* overrides that are unset, empty or a value the loader accepts
HarmlessLevel == env[LOG_LEVEL] \in {nullptr, Value(""), Value("warn")}

HarmlessPort == env[HEALTHCHECK_PORT] \in {nullptr, Value(<<>>), Value(<<57, 48, 48, 49>>)}

\* C30: with every override unset, empty or valid, load_config succeeds, and a
\* value whose override is the empty string is the config file's, or the
\* default when the file leaves it out.
C30_EmptyOverrideIsUnset ==
  (cfgPc = "loaded" /\ HarmlessLevel /\ HarmlessPort) =>
    /\ config.error = "none"
    /\ env[LOG_LEVEL] = Value("") => config.log_level = FromFile("log_level", "info")
    /\ env[HEALTHCHECK_PORT] = Value(<<>>) =>
         config.healthcheck_port = FromFile("healthcheck_port", 8080)

\* ------------------------------------------------ configuration (C31)
\* the levels the statement names
StatedLevels == {"trace", "debug", "info", "warning", "error"}

\* a string that is the decimal notation of an integer
IsInteger(chars) == chars # <<>> /\ \A i \in 1..Len(chars) : chars[i] \in 48..57

StatedLevelAccepted == env[LOG_LEVEL] = nullptr \/ env[LOG_LEVEL].value \in StatedLevels

StatedPortAccepted ==
  \/ env[HEALTHCHECK_PORT] = nullptr
  \/ /\ IsInteger(env[HEALTHCHECK_PORT].value)
     /\ decimal(env[HEALTHCHECK_PORT].value) \in 1024..65535

NonEmptyOverrides == env[LOG_LEVEL] # Value("") /\ env[HEALTHCHECK_PORT] # Value(<<>>)

\* C31: with every override unset or non-empty, load_config succeeds exactly
\* when the log-level override is one of trace, debug, info, warning, error and
\* the port override is an integer in [1024, 65535]; an accepted override
\* replaces the config file's value.
C31_OverrideAcceptedIffValid ==
  (cfgPc = "loaded" /\ NonEmptyOverrides) =>
    /\ (config.error = "none") <=> (StatedLevelAccepted /\ StatedPortAccepted)
    /\ (config.error = "none" /\ env[LOG_LEVEL] # nullptr) =>
         config.log_level = env[LOG_LEVEL].value
    /\ (config.error = "none" /\ env[HEALTHCHECK_PORT] # nullptr) =>
         /\ IsInteger(env[HEALTHCHECK_PORT].value)
         /\ config.healthcheck_port = decimal(env[HEALTHCHECK_PORT].value)

\* ------------------------------------------------ tracker (C32, C39)
AllSetEvents == SetEventsAt(Cascade \cup {"new"})

\* the cascade steps that come after a step
LaterTiers(tier) ==
  CASE tier = "a" -> {"b", "c", "d"}
    [] tier = "b" -> {"c", "d"}
    [] tier = "c" -> {"d"}
    [] OTHER -> {}

\* C32: within a tick a detection is set as a measurement at most once, a
\* detection a cascade step assigned is not offered to a later step, and no
\* detection that was set as a measurement also creates a track.
C32_DetectionConsumedOnce ==
  /\ \A i, j \in AllSetEvents : log[i].det = log[j].det => i = j
  /\ \A k \in SetEventsAt(Cascade) :
       \A tier \in LaterTiers(log[k].tier) : log[k].det \notin OfferedAt(tier)
  /\ \A k \in CreateEvents : \A j \in AllSetEvents : log[j].det # log[k].det

C32_Witness ==
  /\ TickDone
  /\ SetEventsAt({"a"}) # {}
  /\ OfferedAt("c") # {}
  /\ CreateEvents # {}

\* C39: after every tick mLastTimestamp is the timestamp the tick was called
\* with, and from the second tick on the interval a non-empty tick passes to
\* predict is its timestamp minus the timestamp of the tick before it, whether
\* the timestamps increase, repeat or go back.
C39_LastTimestampFollowsTicks ==
  /\ TickDone => mLastTimestamp = tickStamp
  /\ (pc # "idle" /\ InputDets # {} /\ ticks >= 2)
       => /\ log[1].op = "predict"
          /\ log[1].arg = tickStamp - prevStamp

\* a non-empty tick whose timestamp lies before that of the tick preceding it
C39_Witness ==
  /\ TickDone /\ InputDets # {}
  /\ ticks = 3
  /\ tickStamp < prevStamp
  /\ log[1].arg < 0
  /\ variant = "multi"

\* ------------------------------------------------ bus client (C33-C36)
\* C33: when a call to disconnect() has returned, the first call or a later
\* one, no callback is in flight and the callbacks have been disabled.
C33_ReturnedMeansQuiet ==
  (\E d \in Callers : discPc[d] \in {"returned", "done"})
    => /\ callbacks_in_flight = 0
       /\ \A t \in CbThreads : cbPc[t] # "body"
       /\ ~callbacks_enabled

\* C36: whatever the order of the calls and callbacks, isSubscribed() implies
\* isConnected(), and isSubscribed() holds only with a topic in the pending set.
C36_SubscribedImpliesConnected ==
  subscribed => (connected /\ pending_subscriptions_ # {})

\* the topics with a subscribe request made after the latest connection was
\* established, and after their latest unsubscribe
RequestedSince ==
  {t \in ClientTopics :
     \E i \in (needFrom[t] + 1)..Len(wire) : wire[i] = WireCall("subscribe", t)}

\* C34: once subscribe() and connected() have returned, with the client
\* connected, every topic subscribed and not unsubscribed has had a subscribe
\* request made since the connection was established.
C34_NoSubscriptionLost ==
  (subPc = "idle" /\ connPc = "idle" /\ connected) => wanted \subseteq RequestedSince

\* one subscribe() and one connected(): the insert came before the loop and the
\* read of connected_ after the flag was set, so both made the request
C34_Witness ==
  /\ subPc = "idle" /\ connPc = "idle" /\ connected
  /\ clCalls = 2
  /\ Len(wire) = 2
  /\ wire[1] = wire[2]
  /\ wire[1].op = "subscribe"

\* the transport threads inside the registered callback
InCallback == {t \in CbThreads : arrPc[t] = "call"}

\* C35: at most one invocation of the message callback runs at a time, and
\* from the return of setMessageCallback(nullptr) on, no invocation is in
\* progress and none starts.
C35_CallbackSerialisedAndCleared ==
  /\ Cardinality(InCallback) <= 1
  /\ cleared => InCallback = {}

\* a callback was registered and then cleared, and a message that arrived
\* meanwhile has not yet tested the callback
C35_Witness ==
  /\ cleared
  /\ setPc = "idle"
  /\ \E t \in CbThreads : arrPc[t] \in {"lock", "test"}
  /\ arrivals = 2
  /\ setCalls = 2

\* ------------------------------------------------ message handler (C37-C38)
\* the publish() calls whose published_count_++ is still to come
AboutToCount == {t \in HandlerThreads : hPc[t] = "count"}

\* C37: the published counter is the number of scene messages the bus client
\* handed to the transport; a publish dropped for want of a connection is not
\* counted.
C37_PublishedCountsTransported ==
  published_count_ + Cardinality(AboutToCount) = transported

\* the threads between the lock and the unlock of the critical section
InSection == {t \in HandlerThreads : alPc[t] \in {"insert", "test", "erase", "continue", "unlock"}}

\* C38: a thread reads or modifies the allowlist only while it alone holds the
\* mutex, a thread that serialises or publishes does not hold it, and with the
\* mutex free every category in the allowlist is a valid topic segment.
C38_AllowlistUnderMutex ==
  /\ categories_mutex_ = InSection
  /\ Cardinality(categories_mutex_) <= 1
  /\ \A t \in HandlerThreads : alPc[t] \in {"build", "publish"} => t \notin categories_mutex_
  /\ categories_mutex_ = {} =>
       \A c \in validated_categories_ : isValidTopicSegment(codes[c])

\* one thread publishes a cached category while the other has just taken an
\* invalid one out again
C38_Witness ==
  /\ \E t \in HandlerThreads : alPc[t] = "publish"
  /\ \E t \in HandlerThreads : alPc[t] = "continue" /\ alCat[t] = "car/1"
  /\ validated_categories_ = {"person"}

\* ------------------------------------------------ healthcheck server (C40)
\* C40: a stop() called after start(), at whatever point of the server
\* thread's startup, returns, with the server thread terminated and joined.
C40_StopReturns ==
  (appPc = "test") ~> (appPc = "idle" /\ thread_ = "none" /\ srvPc = "exited")

====
